---- MODULE Spec2Model ----
(***************************************************************************)
(* CareFlow routing engine (app/core/router.py) with its lexical matchers  *)
(* (app/core/guardrails.py, app/core/severity.py).                         *)
(*                                                                         *)
(* route_input runs the compiled LangGraph pipeline                        *)
(*   greeting -> guardrails -> intent_override -> emergency_keywords       *)
(*            -> ai_classify                                               *)
(* over a CareFlowState dict.  Every node returns a full copy of the state *)
(* with some keys replaced; a conditional edge then either ends the run or *)
(* names the next node.  Messages are TLA+ strings and the matchers work   *)
(* on their characters, as Python's `in`, lower(), strip() and re.sub do.  *)
(***************************************************************************)
EXTENDS Integers, Sequences, FiniteSets, TLC

\* one invocation of route_input (and the outcome of an earlier one)
VARIABLES pc, arg, state, visited, clsCalls, clsReply, first

\* the callers of route_input and the other endpoints: the stored rows and
\* module-level dicts, the clock, the call being served, the response sent,
\* and what has been observed of the responses so far
VARIABLES store, clock, call, reply, log

routerVars == <<pc, arg, state, visited, clsCalls, clsReply, first>>

orchVars == <<store, clock, call, reply, log>>

vars == <<pc, arg, state, visited, clsCalls, clsReply, first, store, clock, call, reply, log>>

(***************************************************************************)
(* Bounds of the model.                                                    *)
(***************************************************************************)
\* a message is built from at most MaxParts fragments of Fragments
MaxParts == 2
\* route_input is called with abuse_strikes in 0..MaxStrikes
MaxStrikes == 4
\* fragments per message of the call that is repeated in SpecDet
MaxDetParts == 1
\* stored strike counts below zero are -MaxNegative..-1
MaxNegative == 2

(***************************************************************************)
(* Python's None, and str helpers.                                         *)
(***************************************************************************)
None == "<None>"

UpperLetters == "ABCDEFGHIJKLMNOPQRSTUVWXYZ"
LowerLetters == "abcdefghijklmnopqrstuvwxyz"
Digits == "0123456789"

CharsOf(s) == {SubSeq(s, i, i) : i \in 1..Len(s)}

LowerMap == [c \in CharsOf(UpperLetters) |->
               LET i == CHOOSE j \in 1..Len(UpperLetters) : SubSeq(UpperLetters, j, j) = c
               IN  SubSeq(LowerLetters, i, i)]

UpperMap == [c \in CharsOf(LowerLetters) |->
               LET i == CHOOSE j \in 1..Len(LowerLetters) : SubSeq(LowerLetters, j, j) = c
               IN  SubSeq(UpperLetters, i, i)]

\* regex class \w (ASCII part) and \s
WordChars == CharsOf(UpperLetters) \cup CharsOf(LowerLetters) \cup CharsOf(Digits) \cup {"_"}
Whitespace == {" ", "\n", "\t", "\r"}
LineBreaks == {"\n", "\r"}

RECURSIVE MapChars(_, _)
MapChars(f, s) ==
    IF s = "" THEN ""
    ELSE LET c == Head(s)
         IN  (IF c \in DOMAIN f THEN f[c] ELSE c) \o MapChars(f, Tail(s))

\* str.lower(), str.upper()
Lower(s) == MapChars(LowerMap, s)
Upper(s) == MapChars(UpperMap, s)

RECURSIVE KeepChars(_, _)
KeepChars(keep, s) ==
    IF s = "" THEN ""
    ELSE LET c == Head(s)
         IN  (IF c \in keep THEN c ELSE "") \o KeepChars(keep, Tail(s))

RECURSIVE LStrip(_)
LStrip(s) == IF s # "" /\ Head(s) \in Whitespace THEN LStrip(Tail(s)) ELSE s

RECURSIVE RStrip(_)
RStrip(s) ==
    IF s # "" /\ SubSeq(s, Len(s), Len(s)) \in Whitespace
    THEN RStrip(SubSeq(s, 1, Len(s) - 1))
    ELSE s

\* str.strip()
Strip(s) == RStrip(LStrip(s))

\* Python's `k in m` for strings
Contains(m, k) ==
    \E i \in 1..(Len(m) - Len(k) + 1) : SubSeq(m, i, i + Len(k) - 1) = k

\* any(k in m for k in list)
AnyIn(list, m) == \E i \in 1..Len(list) : Contains(m, list[i])

\* str.splitlines(): cut at line breaks, no empty last line
RECURSIVE SplitLines(_, _)
SplitLines(s, cur) ==
    IF s = "" THEN (IF cur = "" THEN <<>> ELSE <<cur>>)
    ELSE IF Head(s) \in LineBreaks
         THEN <<cur>> \o SplitLines(Tail(s), "")
         ELSE SplitLines(Tail(s), cur \o Head(s))

SelectNonEmpty(lines) == SelectSeq(lines, LAMBDA ln : ln # "")

(***************************************************************************)
(* Keyword tables.                                                         *)
(***************************************************************************)
GREETING_PHRASES ==
    { "hello", "hi", "hey", "hola", "good morning", "good afternoon",
      "good evening", "good night", "good day", "how are you",
      "how do you do", "thanks", "thank you", "bye", "goodbye",
      "good bye", "see you", "hey there", "hi there" }

GREETING_SEEDS == << "hello", "hi", "hey", "thanks", "bye" >>

GREETING_MAX_LEN == 25

DIRECT_INTENT_MAP ==
    << [ intent  |-> "doctor_handoff",
         phrases |-> << "doctor", "doctors", "i want a doctor", "i want doctor",
                        "find me a doctor", "book a doctor", "need a doctor",
                        "need doctor", "talk to a doctor", "see a doctor",
                        "consult a doctor", "doctor please", "find doctor",
                        "get doctor", "find me doctor" >> ],
       [ intent  |-> "pharmacy_handoff",
         phrases |-> << "find a pharmacy", "pharmacy near me", "nearby pharmacy",
                        "find pharmacy", "where is a pharmacy", "pharmacies near",
                        "buy medicine", "buy medication", "where to buy medicine",
                        "need to buy", "get medicine from", "otc near me",
                        "i need medicine", "need medicine", "want medicine",
                        "i need medication", "need medication" >> ],
       [ intent  |-> "lab_handoff",
         phrases |-> << "book a lab test", "i need a blood test", "lab test",
                        "need lab work", "diagnostic test", "find a lab",
                        "blood test", "blood work", "get a blood test",
                        "want blood test", "need blood test", "blood test done",
                        "diagnostic lab", "pathology", "test", "tests", "scan",
                        "scans", "diagnosis", "diagnostic" >> ],
       [ intent  |-> "emergency",
         phrases |-> << "call ambulance", "need ambulance", "call 112",
                        "emergency", "i need help now", "someone is dying" >> ] >>

NON_MEDICAL_PATTERNS ==
    << "weather", "sports", "politics", "recipe", "movie",
       "game", "joke", "story", "homework" >>

EMERGENCY_KEYWORDS ==
    << "stroke", "chest pain", "heart attack", "severe bleeding",
       "unconscious", "not breathing", "seizure", "overdose",
       "can't breathe", "suicidal", "suicide", "severe pain" >>

STRIKE_LIMIT == 3

SUSPENDED_MSG == "Your account has been suspended due to repeated non-medical queries."
FINAL_WARNING_MSG == "Final warning: One more non-medical query will suspend your account."
MILD_WARNING_MSG == "Please keep questions medical-related."

GREETING_REPLY == "Hi! How can I help you today?"

(***************************************************************************)
(* guardrails.py                                                           *)
(***************************************************************************)
ScopeMsg(pattern) ==
    "CareFlow is a medical-only platform. I can't help with " \o pattern \o "-related questions."

\* index of the first pattern of NON_MEDICAL_PATTERNS found in the message, 0 if none
FirstNonMedical(message_lower) ==
    LET hits == {i \in 1..Len(NON_MEDICAL_PATTERNS) :
                    Contains(message_lower, NON_MEDICAL_PATTERNS[i])}
    IN  IF hits = {} THEN 0 ELSE CHOOSE i \in hits : \A j \in hits : i <= j

\* returns <<is_valid, warning_message>>
check_medical_scope(message) ==
    LET i == FirstNonMedical(Lower(message))
    IN  IF i # 0 THEN <<FALSE, ScopeMsg(NON_MEDICAL_PATTERNS[i])>>
        ELSE <<TRUE, "">>

\* mutant: the suspension threshold is off by one (> instead of >=)
check_abuse_strikes_off_by_one(user_strikes) ==
    IF user_strikes > STRIKE_LIMIT THEN <<FALSE, SUSPENDED_MSG>>
    ELSE IF user_strikes = 2 THEN <<TRUE, FINAL_WARNING_MSG>>
    ELSE IF user_strikes = 1 THEN <<TRUE, MILD_WARNING_MSG>>
    ELSE <<TRUE, "">>

\* mutant: two strikes get the mild warning
check_abuse_strikes_no_final(user_strikes) ==
    IF user_strikes >= STRIKE_LIMIT THEN <<FALSE, SUSPENDED_MSG>>
    ELSE IF user_strikes >= 1 THEN <<TRUE, MILD_WARNING_MSG>>
    ELSE <<TRUE, "">>

\* returns <<is_allowed, message>>
check_abuse_strikes(user_strikes) ==
    IF user_strikes >= STRIKE_LIMIT THEN <<FALSE, SUSPENDED_MSG>>
    ELSE IF user_strikes = 2 THEN <<TRUE, FINAL_WARNING_MSG>>
    ELSE IF user_strikes = 1 THEN <<TRUE, MILD_WARNING_MSG>>
    ELSE <<TRUE, "">>

(***************************************************************************)
(* severity.py                                                             *)
(***************************************************************************)
is_emergency(message) == AnyIn(EMERGENCY_KEYWORDS, Lower(message))

(***************************************************************************)
(* router.py: node functions.  Each takes the state dict and returns the   *)
(* dict the node returns ({**state, ...}).                                 *)
(***************************************************************************)
normalize_for_greeting(msg) ==
    Strip(KeepChars(WordChars \cup Whitespace, Lower(msg)))

\* mutant: the short-message branch takes fewer than 25 characters
check_greeting_shorter(st) ==
    LET normalized == normalize_for_greeting(st.message)
        greet == [st EXCEPT !.route = "greeting", !.response_message = GREETING_REPLY]
    IN  IF normalized = "" THEN greet
        ELSE IF normalized \in GREETING_PHRASES THEN greet
        ELSE IF Len(normalized) < GREETING_MAX_LEN /\ AnyIn(GREETING_SEEDS, normalized)
             THEN greet
        ELSE [st EXCEPT !.route = "not_greeting"]

check_greeting(st) ==
    LET normalized == normalize_for_greeting(st.message)
        greet == [st EXCEPT !.route = "greeting", !.response_message = GREETING_REPLY]
    IN  IF normalized = "" THEN greet
        ELSE IF normalized \in GREETING_PHRASES THEN greet
        ELSE IF Len(normalized) <= GREETING_MAX_LEN /\ AnyIn(GREETING_SEEDS, normalized)
             THEN greet
        ELSE [st EXCEPT !.route = "not_greeting"]

\* mutant: the scope block returns the strike count it was given
check_guardrails_no_increment(st) ==
    LET strikes == check_abuse_strikes(st.abuse_strikes)
        scope   == check_medical_scope(st.message)
        warning == check_abuse_strikes(st.abuse_strikes + 1)[2]
    IN  IF ~strikes[1]
        THEN [st EXCEPT !.route = "blocked",
                        !.block_reason = strikes[2],
                        !.response_message = strikes[2]]
        ELSE IF ~scope[1]
        THEN [st EXCEPT !.route = "blocked",
                        !.block_reason = scope[2],
                        !.response_message = Strip(scope[2] \o " " \o warning)]
        ELSE [st EXCEPT !.route = "passed_guardrails"]

\* mutant: the suspension block records a strike too
check_guardrails_strike_on_suspension(st) ==
    LET strikes == check_abuse_strikes(st.abuse_strikes)
        scope   == check_medical_scope(st.message)
        new_strikes == st.abuse_strikes + 1
        warning == check_abuse_strikes(new_strikes)[2]
    IN  IF ~strikes[1]
        THEN [st EXCEPT !.route = "blocked",
                        !.block_reason = strikes[2],
                        !.abuse_strikes = new_strikes,
                        !.response_message = strikes[2]]
        ELSE IF ~scope[1]
        THEN [st EXCEPT !.route = "blocked",
                        !.block_reason = scope[2],
                        !.abuse_strikes = new_strikes,
                        !.response_message = Strip(scope[2] \o " " \o warning)]
        ELSE [st EXCEPT !.route = "passed_guardrails"]

check_guardrails(st) ==
    LET strikes == check_abuse_strikes(st.abuse_strikes)
        scope   == check_medical_scope(st.message)
        new_strikes == st.abuse_strikes + 1
        warning == check_abuse_strikes(new_strikes)[2]
    IN  IF ~strikes[1]
        THEN [st EXCEPT !.route = "blocked",
                        !.block_reason = strikes[2],
                        !.response_message = strikes[2]]
        ELSE IF ~scope[1]
        THEN [st EXCEPT !.route = "blocked",
                        !.block_reason = scope[2],
                        !.abuse_strikes = new_strikes,
                        !.response_message = Strip(scope[2] \o " " \o warning)]
        ELSE [st EXCEPT !.route = "passed_guardrails"]

\* mutant: the last matching category wins
FirstIntent_last(message_lower) ==
    LET hits == {i \in 1..Len(DIRECT_INTENT_MAP) :
                    AnyIn(DIRECT_INTENT_MAP[i].phrases, message_lower)}
    IN  IF hits = {} THEN 0 ELSE CHOOSE i \in hits : \A j \in hits : i >= j

\* mutant: a phrase has to be the whole message
FirstIntent_whole_message(message_lower) ==
    LET hits == {i \in 1..Len(DIRECT_INTENT_MAP) :
                    \E j \in 1..Len(DIRECT_INTENT_MAP[i].phrases) :
                        DIRECT_INTENT_MAP[i].phrases[j] = message_lower}
    IN  IF hits = {} THEN 0 ELSE CHOOSE i \in hits : \A j \in hits : i <= j

\* index of the first category of DIRECT_INTENT_MAP with a phrase in the message, 0 if none
FirstIntent(message_lower) ==
    LET hits == {i \in 1..Len(DIRECT_INTENT_MAP) :
                    AnyIn(DIRECT_INTENT_MAP[i].phrases, message_lower)}
    IN  IF hits = {} THEN 0 ELSE CHOOSE i \in hits : \A j \in hits : i <= j

check_intent_override(st) ==
    LET i == FirstIntent(Lower(st.message))
    IN  IF i # 0
        THEN [st EXCEPT !.route = DIRECT_INTENT_MAP[i].intent,
                        !.response_message = "Direct handoff: " \o DIRECT_INTENT_MAP[i].intent]
        ELSE [st EXCEPT !.route = "needs_classification"]

check_emergency_keywords(st) ==
    IF is_emergency(st.message)
    THEN [st EXCEPT !.route = "emergency",
                    !.response_message =
                        "Emergency keywords detected. Initiating emergency protocol."]
    ELSE [st EXCEPT !.route = "needs_ai_classification"]

SUGGESTION_MAX_LEN == 300

\* mutant: a first line that is no category is routed to unclear
RouteMap_default_unclear(classification) ==
    IF classification = "EMERGENCY" THEN "emergency"
    ELSE IF classification = "MEDICAL" THEN "medical"
    ELSE "unclear"

\* mutant: UNCLEAR is routed like MEDICAL
RouteMap_unclear_as_medical(classification) ==
    IF classification = "EMERGENCY" THEN "emergency"
    ELSE "medical"

RouteMap(classification) ==
    IF classification = "EMERGENCY" THEN "emergency"
    ELSE IF classification = "MEDICAL" THEN "medical"
    ELSE IF classification = "UNCLEAR" THEN "unclear"
    ELSE "medical"

\* mutant: the second line is kept as the suggestion whatever the category
classify_with_ai_any_suggestion(st, content) ==
    LET raw   == Strip(IF content = None THEN "" ELSE content)
        split == SplitLines(raw, "")
        lines == SelectNonEmpty([i \in 1..Len(split) |-> Strip(split[i])])
        classification == IF Len(lines) > 0 THEN Upper(lines[1]) ELSE "MEDICAL"
        suggestion == IF Len(lines) >= 2 THEN Strip(lines[2]) ELSE ""
        doctor_suggestion_text ==
            IF Len(lines) >= 2
               /\ suggestion # "" /\ Len(suggestion) < SUGGESTION_MAX_LEN
            THEN suggestion ELSE None
    IN  [st EXCEPT !.route = RouteMap(classification),
                   !.classification = classification,
                   !.doctor_specialty = None,
                   !.doctor_suggestion_text = doctor_suggestion_text,
                   !.response_message = "Classified as: " \o classification]

\* the part of classify_with_ai after llm.invoke returned `content`
classify_with_ai(st, content) ==
    LET raw   == Strip(IF content = None THEN "" ELSE content)
        split == SplitLines(raw, "")
        lines == SelectNonEmpty([i \in 1..Len(split) |-> Strip(split[i])])
        classification == IF Len(lines) > 0 THEN Upper(lines[1]) ELSE "MEDICAL"
        suggestion == IF Len(lines) >= 2 THEN Strip(lines[2]) ELSE ""
        doctor_suggestion_text ==
            IF Len(lines) >= 2 /\ classification = "MEDICAL"
               /\ suggestion # "" /\ Len(suggestion) < SUGGESTION_MAX_LEN
            THEN suggestion ELSE None
    IN  [st EXCEPT !.route = RouteMap(classification),
                   !.classification = classification,
                   !.doctor_specialty = None,
                   !.doctor_suggestion_text = doctor_suggestion_text,
                   !.response_message = "Classified as: " \o classification]

(***************************************************************************)
(* router.py: conditional edges (they return the edge's label) and the     *)
(* graph build_router_graph compiles: entry point, and for every node the  *)
(* edge function's labels mapped to the next node or END.                  *)
(***************************************************************************)
END == "END"

\* mutant: a greeting is passed on to the guardrails
after_greeting_passes_on(st) == "guardrails"

after_greeting(st) ==
    IF st.route = "greeting" THEN "greeting_done" ELSE "guardrails"

after_guardrails(st) ==
    IF st.route = "blocked" THEN "blocked" ELSE "check_intent"

\* mutant: doctor_handoff is missing from the routes that end the run
after_intent_no_doctor(st) ==
    IF st.route \in {"pharmacy_handoff", "lab_handoff", "emergency"}
    THEN "direct_handoff" ELSE "check_emergency"

after_intent(st) ==
    IF st.route \in {"doctor_handoff", "pharmacy_handoff", "lab_handoff", "emergency"}
    THEN "direct_handoff" ELSE "check_emergency"

\* mutant: the keyword scan's result is ignored and the classifier decides
after_emergency_check_always_classify(st) == "classify"

after_emergency_check(st) ==
    IF st.route = "emergency" THEN "emergency_detected" ELSE "classify"

after_classification(st) ==
    IF st.route = "emergency" THEN "emergency_detected" ELSE "medical_detected"

ENTRY_POINT == "greeting"

\* mutant: the intent override's fall-through edge is wired to the classifier
build_router_graph_skips_scan ==
    [ greeting           |-> [greeting_done |-> END, guardrails |-> "guardrails"],
      guardrails         |-> [blocked |-> END, check_intent |-> "intent_override"],
      intent_override    |-> [direct_handoff |-> END, check_emergency |-> "ai_classify"],
      emergency_keywords |-> [emergency_detected |-> END, classify |-> "ai_classify"],
      ai_classify        |-> [emergency_detected |-> END, medical_detected |-> END] ]

build_router_graph ==
    [ greeting           |-> [greeting_done |-> END, guardrails |-> "guardrails"],
      guardrails         |-> [blocked |-> END, check_intent |-> "intent_override"],
      intent_override    |-> [direct_handoff |-> END, check_emergency |-> "emergency_keywords"],
      emergency_keywords |-> [emergency_detected |-> END, classify |-> "ai_classify"],
      ai_classify        |-> [emergency_detected |-> END, medical_detected |-> END] ]

router_graph == build_router_graph

\* where the compiled graph goes after `node` returned `st` with edge label `label`
NextPc(node, label) ==
    LET target == router_graph[node][label]
    IN  IF target = END THEN "done" ELSE target

(***************************************************************************)
(* Inputs.  A message is up to MaxParts fragments joined by single spaces; *)
(* the fragments carry greetings, emergency keywords, scope keywords,      *)
(* direct-intent phrases of every category, plain symptom text, upper case *)
(* and punctuation.                                                        *)
(***************************************************************************)
Fragments ==
    { "", "Hello!", "hi",
      "chest pain", "not breathing", "Stroke",
      "weather", "a Game",
      "I want a doctor", "need medicine", "lab test", "emergency",
      "fever", "my head hurts since yesterday" }

RECURSIVE Join(_)
Join(parts) ==
    IF Len(parts) = 0 THEN ""
    ELSE IF Len(parts) = 1 THEN parts[1]
    ELSE parts[1] \o " " \o Join(Tail(parts))

\* messages at the edges of the greeting rule (punctuation only, blanks only, a
\* greeting phrase without a seed, normalized lengths 25 and 26 with a seed) and
\* of the phrase lists (a single word alone, inside a sentence, inside a word)
EdgeMessages ==
    { "?!", " \t ", "Good morning.",
      "not breathing, a bad fever", "not breathing a high fever",
      "pharmacy", "what medicine for a cough",
      "my doctor ordered a test", "the latest results" }

Messages ==
    UNION { {Join(parts) : parts \in [1..k -> Fragments]} : k \in 0..MaxParts }
        \cup EdgeMessages

Strikes == 0..MaxStrikes

\* what response.content of the classifier's answer can be
ClassifierContents ==
    { "EMERGENCY", "MEDICAL", "UNCLEAR",
      "MEDICAL\nA neurologist could help with recurring headaches.",
      "EMERGENCY\nCall an ambulance.",
      " unclear \n", "Sorry, I cannot classify this.",
      "Not sure.\nSee a doctor.", "", None }

Raised == "<raised>"
NoCall == "<no call>"

(***************************************************************************)
(* State machine of one route_input invocation.                            *)
(***************************************************************************)
NoArg == [message |-> None, abuse_strikes |-> 0]

NoState ==
    [ message |-> None, abuse_strikes |-> 0, route |-> "", block_reason |-> None,
      classification |-> None, doctor_specialty |-> None,
      doctor_suggestion_text |-> None, response_message |-> None ]

NoRun ==
    [arg |-> NoArg, pc |-> "idle", state |-> NoState, clsCalls |-> 0, clsReply |-> NoCall]

\* mutant: the dict of the previous invocation is reused, only the inputs and
\* the route are set anew
initial_state_reused(message, abuse_strikes) ==
    [state EXCEPT !.message = message, !.abuse_strikes = abuse_strikes, !.route = ""]

\* initial_state of route_input (user_id and session_id are carried along and
\* read by no node)
initial_state(message, abuse_strikes) ==
    [ message |-> message, abuse_strikes |-> abuse_strikes, route |-> "",
      block_reason |-> None, classification |-> None, doctor_specialty |-> None,
      doctor_suggestion_text |-> None, response_message |-> None ]

\* no endpoint is modelled around this invocation
Unused == "<unused>"

Init ==
    /\ pc = "idle"
    /\ arg = NoArg
    /\ state = NoState
    /\ visited = <<>>
    /\ clsCalls = 0
    /\ clsReply = NoCall
    /\ first = NoRun
    /\ store = Unused
    /\ clock = 0
    /\ call = Unused
    /\ reply = Unused
    /\ log = Unused

\* route_input(message, abuse_strikes): router_graph.invoke(initial_state)
Invoke(message, abuse_strikes) ==
    /\ pc' = ENTRY_POINT
    /\ arg' = [message |-> message, abuse_strikes |-> abuse_strikes]
    /\ state' = initial_state(message, abuse_strikes)
    /\ visited' = <<>>
    /\ clsCalls' = 0
    /\ clsReply' = NoCall
    /\ UNCHANGED orchVars

RouteInput ==
    /\ pc = "idle"
    /\ first = NoRun
    /\ \E message \in Messages, abuse_strikes \in Strikes : Invoke(message, abuse_strikes)
    /\ UNCHANGED first

\* a node that makes no external call: run it, then follow its conditional edge
RunNode(node, result, label) ==
    /\ pc = node
    /\ state' = result
    /\ pc' = NextPc(node, label)
    /\ visited' = Append(visited, node)
    /\ UNCHANGED <<arg, first>>
    /\ UNCHANGED orchVars

Greeting ==
    /\ RunNode("greeting", check_greeting(state), after_greeting(check_greeting(state)))
    /\ UNCHANGED <<clsCalls, clsReply>>

Guardrails ==
    /\ RunNode("guardrails", check_guardrails(state), after_guardrails(check_guardrails(state)))
    /\ UNCHANGED <<clsCalls, clsReply>>

IntentOverride ==
    /\ RunNode("intent_override", check_intent_override(state),
               after_intent(check_intent_override(state)))
    /\ UNCHANGED <<clsCalls, clsReply>>

EmergencyKeywords ==
    /\ RunNode("emergency_keywords", check_emergency_keywords(state),
               after_emergency_check(check_emergency_keywords(state)))
    /\ UNCHANGED <<clsCalls, clsReply>>

\* classify_with_ai, llm.invoke answers
AiClassify ==
    \E content \in ClassifierContents :
        /\ RunNode("ai_classify", classify_with_ai(state, content),
                   after_classification(classify_with_ai(state, content)))
        /\ clsCalls' = clsCalls + 1
        /\ clsReply' = content

\* classify_with_ai, llm.invoke raises (gateway unreachable, timeout, bad key):
\* nothing catches it in the node, the graph or route_input
AiClassifyRaises ==
    /\ pc = "ai_classify"
    /\ pc' = "raised"
    /\ visited' = Append(visited, "ai_classify")
    /\ clsCalls' = clsCalls + 1
    /\ clsReply' = Raised
    /\ UNCHANGED <<state, arg, first>>
    /\ UNCHANGED orchVars

Finished == pc \in {"done", "raised"}

Reset ==
    /\ pc' = "idle"
    /\ arg' = NoArg
    /\ state' = NoState
    /\ visited' = <<>>
    /\ clsCalls' = 0
    /\ clsReply' = NoCall
    /\ UNCHANGED orchVars

\* route_input returned (or raised) to its caller
Return ==
    /\ Finished
    /\ first = NoRun
    /\ Reset
    /\ UNCHANGED first

Nodes ==
    \/ Greeting
    \/ Guardrails
    \/ IntentOverride
    \/ EmergencyKeywords
    \/ AiClassify
    \/ AiClassifyRaises

Next ==
    \/ RouteInput
    \/ Nodes
    \/ Return

Spec == Init /\ [][Next]_vars

(***************************************************************************)
(* Two invocations with the same arguments, one after the other: the       *)
(* first's outcome is kept in `first` while the second runs.  The          *)
(* classifier answers each call on its own.                                *)
(***************************************************************************)
Outcome ==
    [arg |-> arg, pc |-> pc, state |-> state, clsCalls |-> clsCalls, clsReply |-> clsReply]

ReturnFirst ==
    /\ Finished
    /\ first = NoRun
    /\ first' = Outcome
    /\ Invoke(arg.message, arg.abuse_strikes)

ReturnSecond ==
    /\ Finished
    /\ first # NoRun
    /\ Reset
    /\ first' = NoRun

NextPair ==
    \/ RouteInput
    \/ Nodes
    \/ ReturnFirst
    \/ ReturnSecond

SpecPair == Init /\ [][NextPair]_vars

(***************************************************************************)
(* chat.py, triage.py: the message the user is sent for a blocked result   *)
(***************************************************************************)
BLOCKED_DEFAULT_REPLY ==
    "I can only help with health-related questions. Please ask about doctors, pharmacy, labs, or emergencies."

\* Python's `x or y` on an Optional[str]
Or(x, y) == IF x = None \/ x = "" THEN y ELSE x

\* chat: _user_message(..., route = "blocked", block_reason = result.get("block_reason"))
chat_blocked_message(result) == Or(result.block_reason, BLOCKED_DEFAULT_REPLY)

\* create_triage: message = block_reason or result.get("response_message", "Request blocked.")
triage_blocked_message(result) == Or(result.block_reason, result.response_message)

(***************************************************************************)
(* The same call made twice against a deterministic classifier (a stub     *)
(* that answers a message the same way every time), with at most one call  *)
(* with other arguments in between.  `first` keeps the first outcome.      *)
(***************************************************************************)
DetMessages ==
    UNION { {Join(parts) : parts \in [1..k -> Fragments]} : k \in 0..MaxDetParts }

\* the calls made in between: one for every way a run can end
OtherCalls ==
    { [message |-> "weather", abuse_strikes |-> 2],
      [message |-> "a Game not breathing", abuse_strikes |-> 3],
      [message |-> "fever", abuse_strikes |-> 0],
      [message |-> "I want a doctor", abuse_strikes |-> 1],
      [message |-> "Hello!", abuse_strikes |-> 0] }

RouteInputDet ==
    /\ pc = "idle"
    /\ first = NoRun
    /\ \E message \in DetMessages, abuse_strikes \in Strikes : Invoke(message, abuse_strikes)
    /\ UNCHANGED first

\* the stub has answered this message before: it answers the same way
StubAnswersAsBefore ==
    (first # NoRun /\ first.clsReply # NoCall /\ arg.message = first.arg.message)
        => clsReply = first.clsReply

NodesDet ==
    \/ Greeting
    \/ Guardrails
    \/ IntentOverride
    \/ EmergencyKeywords
    \/ AiClassify /\ StubAnswersAsBefore'
    \/ AiClassifyRaises /\ StubAnswersAsBefore'

\* the first call returned; the caller calls again with the same arguments
ReturnThenRepeat ==
    /\ Finished
    /\ first = NoRun
    /\ first' = Outcome
    /\ Invoke(arg.message, arg.abuse_strikes)

\* the first call returned; a call with other arguments is made
ReturnThenOther ==
    /\ Finished
    /\ first = NoRun
    /\ first' = Outcome
    /\ \E other \in OtherCalls :
          /\ other # arg
          /\ Invoke(other.message, other.abuse_strikes)

\* the call in between returned; the first call is repeated
OtherReturnsThenRepeat ==
    /\ Finished
    /\ first # NoRun
    /\ arg # first.arg
    /\ Invoke(first.arg.message, first.arg.abuse_strikes)
    /\ UNCHANGED first

RepeatReturns ==
    /\ Finished
    /\ first # NoRun
    /\ arg = first.arg
    /\ Reset
    /\ first' = NoRun

NextDet ==
    \/ RouteInputDet
    \/ NodesDet
    \/ ReturnThenRepeat
    \/ ReturnThenOther
    \/ OtherReturnsThenRepeat
    \/ RepeatReturns

SpecDet == Init /\ [][NextDet]_vars

(***************************************************************************)
(* chat.py, triage.py: the caller reads the strike count of the stored     *)
(* user (0 when the request has no user) and passes it to route_input.     *)
(* Here the stored count is below zero or there is no user.                *)
(***************************************************************************)
NoUser == [present |-> FALSE, abuse_strikes |-> 0]

InvalidUsers ==
    {NoUser} \cup { [present |-> TRUE, abuse_strikes |-> 0 - k] : k \in 1..MaxNegative }

\* abuse_strikes = user.abuse_strikes if user else 0
caller_abuse_strikes(user) == IF user.present THEN user.abuse_strikes ELSE 0

RouteInputInvalid ==
    /\ pc = "idle"
    /\ first = NoRun
    /\ \E message \in Messages, user \in InvalidUsers :
          Invoke(message, caller_abuse_strikes(user))
    /\ UNCHANGED first

NextInvalid ==
    \/ RouteInputInvalid
    \/ Nodes
    \/ Return

SpecInvalid == Init /\ [][NextInvalid]_vars

(***************************************************************************)
(* router.py: route_input as a function of its arguments and of what the   *)
(* classifier answers if it is asked: the compiled graph run from its      *)
(* entry point to END.                                                     *)
(***************************************************************************)
\* what route_input leaves its caller with when llm.invoke raises
RouterError == [NoState EXCEPT !.route = Raised]

RECURSIVE invoke(_, _, _)
invoke(node, st, content) ==
    IF node = "ai_classify" /\ content = Raised THEN RouterError
    ELSE
    LET result ==
            CASE node = "greeting"           -> check_greeting(st)
              [] node = "guardrails"         -> check_guardrails(st)
              [] node = "intent_override"    -> check_intent_override(st)
              [] node = "emergency_keywords" -> check_emergency_keywords(st)
              [] node = "ai_classify"        -> classify_with_ai(st, content)
        label ==
            CASE node = "greeting"           -> after_greeting(result)
              [] node = "guardrails"         -> after_guardrails(result)
              [] node = "intent_override"    -> after_intent(result)
              [] node = "emergency_keywords" -> after_emergency_check(result)
              [] node = "ai_classify"        -> after_classification(result)
        next == NextPc(node, label)
    IN  IF next = "done" THEN result ELSE invoke(next, result, content)

route_input(message, abuse_strikes, content) ==
    invoke(ENTRY_POINT, initial_state(message, abuse_strikes), content)

(***************************************************************************)
(* severity.py                                                             *)
(***************************************************************************)
HIGH_MEDICAL_KEYWORDS ==
    << "severe", "critical", "intense pain", "high fever", "vomiting blood",
       "allergic reaction", "broken bone", "deep cut", "burn" >>

MODERATE_MEDICAL_KEYWORDS ==
    << "fever", "cough", "headache", "stomach", "rash", "infection",
       "pain", "dizzy", "nausea", "cold", "flu" >>

LOW_PSYCH_KEYWORDS == << "stress", "tired", "sleep", "worried", "mood" >>
MODERATE_PSYCH_KEYWORDS == << "anxiety", "panic", "depressed", "insomnia", "overwhelmed" >>
CRISIS_PSYCH_KEYWORDS == << "suicidal", "suicide", "self-harm", "end my life", "want to die" >>

MedicalCodes == { "M0", "M1", "M2", "M3" }
PsychologicalCodes == { "P0", "P1", "P2", "P3" }

\* a returned tuple (m, p), or the exception that left the function
Pair(m, p) == [raised |-> FALSE, m |-> m, p |-> p]
SeverityRaised == [raised |-> TRUE, m |-> None, p |-> None]

\* str.split(): cut at runs of whitespace
RECURSIVE SplitWords(_, _)
SplitWords(s, cur) ==
    IF s = "" THEN (IF cur = "" THEN <<>> ELSE <<cur>>)
    ELSE IF Head(s) \in Whitespace
         THEN (IF cur = "" THEN <<>> ELSE <<cur>>) \o SplitWords(Tail(s), "")
         ELSE SplitWords(Tail(s), cur \o Head(s))

\* the loop over parts: the last part that is a code of `codes`, else `default`
RECURSIVE LastCode(_, _, _)
LastCode(parts, codes, default) ==
    IF parts = <<>> THEN default
    ELSE LastCode(Tail(parts), codes, IF Head(parts) \in codes THEN Head(parts) ELSE default)

\* mutant: the emergency tier is looked at before the psychological tiers
severity_rules_emergency_first(message) ==
    LET msg == Lower(message)
    IN  IF AnyIn(EMERGENCY_KEYWORDS, msg) THEN Pair("M3", "P0")
        ELSE IF AnyIn(CRISIS_PSYCH_KEYWORDS, msg) THEN Pair("M1", "P3")
        ELSE IF AnyIn(MODERATE_PSYCH_KEYWORDS, msg) THEN Pair("M1", "P2")
        ELSE IF AnyIn(LOW_PSYCH_KEYWORDS, msg) THEN Pair("M0", "P1")
        ELSE IF AnyIn(HIGH_MEDICAL_KEYWORDS, msg) THEN Pair("M2", "P0")
        ELSE IF AnyIn(MODERATE_MEDICAL_KEYWORDS, msg) THEN Pair("M1", "P0")
        ELSE Pair("M1", "P0")

severity_rules(message) ==
    LET msg == Lower(message)
    IN  IF AnyIn(CRISIS_PSYCH_KEYWORDS, msg) THEN Pair("M1", "P3")
        ELSE IF AnyIn(MODERATE_PSYCH_KEYWORDS, msg) THEN Pair("M1", "P2")
        ELSE IF AnyIn(LOW_PSYCH_KEYWORDS, msg) THEN Pair("M0", "P1")
        ELSE IF AnyIn(EMERGENCY_KEYWORDS, msg) THEN Pair("M3", "P0")
        ELSE IF AnyIn(HIGH_MEDICAL_KEYWORDS, msg) THEN Pair("M2", "P0")
        ELSE IF AnyIn(MODERATE_MEDICAL_KEYWORDS, msg) THEN Pair("M1", "P0")
        ELSE Pair("M1", "P0")

\* env: whether langchain_google_genai can be imported and settings.google_api_key;
\* content: resp.content of llm.invoke, or Raised when the call raises (nothing
\* in the function catches it)
severity_with_ai(message, env, content) ==
    IF ~env.langchain THEN severity_rules(message)
    ELSE IF env.google_api_key \in {None, ""} THEN severity_rules(message)
    ELSE IF content = Raised THEN SeverityRaised
    ELSE LET text  == Upper(Strip(IF content = None THEN "" ELSE content))
             parts == SplitWords(MapChars("," :> " ", text), "")
         IN  Pair(LastCode(parts, MedicalCodes, "M1"),
                  LastCode(parts, PsychologicalCodes, "P0"))

calculate_severity(symptoms, env, content) ==
    LET text == IF Len(symptoms) > 0 THEN Strip(Join(symptoms)) ELSE ""
    IN  IF text = "" THEN Pair("M0", "P0")
        ELSE IF env.google_api_key \notin {None, ""}
        THEN severity_with_ai(text, env, content)
        ELSE severity_rules(text)

(***************************************************************************)
(* chat.py, triage.py: the answer for a routed message.  The texts are the *)
(* source's, with its long dash written as a hyphen.                       *)
(***************************************************************************)
UNCLEAR_FALLBACK ==
    "I can only help with health-related questions-symptoms, finding a doctor, pharmacy, lab, or emergencies. What do you need?"

EMERGENCY_SERVICES_REPLY == "Opening nearby emergency services."

OTC_COLD_TERMS ==
    << "cold", "common cold", "runny nose", "stuffy nose", "congestion", "sore throat" >>

otc_suggestion_for_message(message) ==
    LET msg == Lower(IF message = None THEN "" ELSE message)
    IN  IF AnyIn(OTC_COLD_TERMS, msg)
        THEN "For a typical cold, OTC options include acetaminophen/paracetamol for fever or aches, saline nasal spray, and throat lozenges-follow the label and seek care if symptoms are severe or persist"
        ELSE IF Contains(msg, "headache") \/ Contains(msg, "head ache")
        THEN "For a mild headache, OTC options include acetaminophen/paracetamol-follow the label and seek care if severe or persistent"
        ELSE None

SPECIALTY_LABELS ==
    [ general_physician |-> "a general physician", pediatrician |-> "a pediatrician",
      dermatologist |-> "a dermatologist", cardiologist |-> "a cardiologist",
      psychiatrist |-> "a psychiatrist", orthopedic |-> "an orthopedic specialist",
      dentist |-> "a dentist", gynecologist |-> "a gynecologist" ]

doctor_label(specialty) ==
    IF specialty \in {None, ""} THEN "a doctor"
    ELSE IF specialty \in DOMAIN SPECIALTY_LABELS THEN SPECIALTY_LABELS[specialty]
    ELSE LET p == Strip(MapChars("_" :> " ", specialty))
         IN  IF p = "" THEN "a doctor"
             ELSE (IF Head(p) \in CharsOf("aeiou") THEN "an" ELSE "a") \o " " \o p

PHARMACY_OFFER == " If you'd like, I can help you find a pharmacy nearby-share your location."

\* returns <<message_for_user, action>>
user_message(user_message_, route, severity_medical, severity_psychological, block_reason, doctor_specialty, doctor_suggestion_text) ==
    LET otc == otc_suggestion_for_message(user_message_)
    IN
    IF route = "greeting" THEN << GREETING_REPLY, None >>
    ELSE IF route = "blocked" THEN << Or(block_reason, BLOCKED_DEFAULT_REPLY), None >>
    ELSE IF route = "emergency" THEN << EMERGENCY_SERVICES_REPLY, "emergency_services" >>
    ELSE IF route = "doctor_handoff"
    THEN << "I can help you find " \o doctor_label(doctor_specialty)
               \o ". Share your location to see nearby options.", "doctors" >>
    ELSE IF route = "pharmacy_handoff"
    THEN (IF otc # None THEN << otc \o "." \o PHARMACY_OFFER, "pharmacy" >>
          ELSE << "I can help you find a pharmacy. Share your location for nearby pharmacies.",
                  "pharmacy" >>)
    ELSE IF route = "lab_handoff"
    THEN << "I can help you with lab tests. Share your location to find nearby labs.", "labs" >>
    ELSE IF route = "unclear" THEN << UNCLEAR_FALLBACK, None >>
    ELSE IF route = "medical"
    THEN (IF severity_medical = "M3"
          THEN << EMERGENCY_SERVICES_REPLY, "emergency_services" >>
          ELSE IF severity_medical = "M1" /\ otc # None
          THEN << otc \o "." \o PHARMACY_OFFER, "pharmacy" >>
          ELSE IF severity_psychological = "P3"
          THEN << "If you're in crisis, please reach out to a helpline. Open the link below to see numbers and find mental health support.",
                  "psychological" >>
          ELSE IF severity_psychological \in { "P1", "P2" }
          THEN << "Based on what you've shared, I recommend speaking with a mental health professional. I can help you find a psychologist, psychiatrist, or counselor nearby, or show you crisis helpline numbers.",
                  "psychological" >>
          ELSE IF doctor_suggestion_text \notin {None, ""}
          THEN << doctor_suggestion_text
                     \o " I can help you find one nearby if you share your location.",
                  "doctors" >>
          ELSE << "Based on what you've described, I recommend speaking with "
                     \o doctor_label(doctor_specialty)
                     \o ". I can help you find one nearby if you share your location.",
                  "doctors" >>)
    ELSE << "How can I help you today?", None >>

\* an exception that no handler of the endpoint catches
ServerError == [status |-> 500]

\* mutant: run_medical_pipeline is called as it is declared and its text
\* replaces the message of a medical route
chat_routed_response_pipeline_replies(message, result, sev) ==
    LET route == IF result.route = "" THEN "medical" ELSE result.route
        severity == IF route = "medical" THEN sev ELSE Pair("M1", "P0")
        answer == user_message(message, route, severity.m, severity.p, result.block_reason,
                               result.doctor_specialty, result.doctor_suggestion_text)
    IN  IF severity.raised THEN ServerError
        ELSE [ status  |-> 200,
               message |-> IF route = "medical" THEN "<pipeline reply>" ELSE answer[1],
               action  |-> answer[2],
               doctor_specialty |->
                   IF answer[2] = "doctors" THEN result.doctor_specialty ELSE None,
               doctor_suggestion_text |->
                   IF answer[2] = "doctors" THEN result.doctor_suggestion_text ELSE None ]

\* chat, after route_input returned `result` with a route other than blocked and
\* unclear; sev is what calculate_severity([request.message]) gives.  The call
\* run_medical_pipeline(request.message, severity_medical) passes two arguments
\* to a function of one: it raises TypeError, which the try around it catches,
\* so msg stays what _user_message returned.
chat_routed_response(message, result, sev) ==
    LET route == IF result.route = "" THEN "medical" ELSE result.route
        severity == IF route = "medical" THEN sev ELSE Pair("M1", "P0")
        answer == user_message(message, route, severity.m, severity.p, result.block_reason,
                               result.doctor_specialty, result.doctor_suggestion_text)
    IN  IF severity.raised THEN ServerError
        ELSE [ status  |-> 200,
               message |-> answer[1],
               action  |-> answer[2],
               doctor_specialty |->
                   IF answer[2] = "doctors" THEN result.doctor_specialty ELSE None,
               doctor_suggestion_text |->
                   IF answer[2] = "doctors" THEN result.doctor_suggestion_text ELSE None ]

\* triage.py's _route_to_action
route_to_action(route) ==
    IF route \in { "emergency", "doctor_handoff", "pharmacy_handoff", "lab_handoff",
                   "blocked", "unclear" }
    THEN route ELSE "medical"

\* create_triage, after route_input returned `result` with a route other than
\* blocked and unclear
triage_routed_response(message, result, sev) ==
    LET route == IF result.route = "" THEN "medical" ELSE result.route
        severity == IF route = "medical" THEN sev ELSE Pair("M1", "P0")
        recommended_action ==
            IF route = "medical"
            THEN (IF severity.m = "M3" THEN "emergency" ELSE "doctor_handoff")
            ELSE route_to_action(route)
    IN  IF severity.raised THEN ServerError
        ELSE [ status |-> 200,
               severity_medical |-> severity.m,
               severity_psychological |-> severity.p,
               recommended_action |-> recommended_action,
               message |-> Or(result.response_message,
                              "Routed to " \o recommended_action \o ".") ]

(***************************************************************************)
(* Severity scoring and the answer for a routed message, applied to        *)
(* messages with keywords of every tier, with and without the classifier   *)
(* library and key, and to every kind of classifier reply.                 *)
(***************************************************************************)
SeverityMessages ==
    { "", "  ", "fever", "my knee aches", "mild headache",
      "I feel stressed", "Overwhelmed, cannot sleep", "panic attack and rash",
      "want to die", "Suicidal, with chest pain", "severe burn on my arm",
      "she is unconscious" }

SymptomLists ==
    { <<m>> : m \in SeverityMessages }
        \cup { <<>>, << "", "" >>, << "fever", "want to die" >>, << "stroke", "tired" >> }

Envs == [ langchain : BOOLEAN, google_api_key : { None, "", "key" } ]

\* resp.content of the severity call
SeverityContents ==
    { "M3,P0", "m2, p2", "M1 P3", "P1", "Probably M2.", "M3,P0,M0", "M0,P0", "", None }

\* response.content of the routing classifier
RoutingContents ==
    { "MEDICAL", "MEDICAL\nA neurologist could help with recurring headaches.",
      "EMERGENCY", "UNCLEAR" }

\* no call is being served, no response is pending
NoRequest == [op |-> "idle"]
NoReply == [status |-> 0]

InitSeverity ==
    /\ pc = "idle"
    /\ arg = NoArg
    /\ state = NoState
    /\ visited = <<>>
    /\ clsCalls = 0
    /\ clsReply = NoCall
    /\ first = NoRun
    /\ store = Unused
    /\ clock = 0
    /\ call = NoRequest
    /\ reply = NoReply
    /\ log = Unused

\* calculate_severity(symptoms)
Score ==
    /\ call = NoRequest
    /\ \E symptoms \in SymptomLists, env \in Envs,
          content \in SeverityContents \cup {Raised} :
          /\ call' = [ op |-> "calculate_severity", symptoms |-> symptoms, env |-> env,
                       content |-> content ]
          /\ reply' = calculate_severity(symptoms, env, content)
    /\ UNCHANGED <<routerVars, store, clock, log>>

\* the messages an endpoint is sent here
AnswerMessages == SeverityMessages \cup { "I want a doctor", "chest pain" }

NoSeverity == [raised |-> FALSE, m |-> None, p |-> None]

\* an endpoint got a message and route_input returned a route other than
\* blocked and unclear
Routed ==
    /\ call = NoRequest
    /\ \E endpoint \in { "chat", "triage" }, message \in AnswerMessages,
          routing \in RoutingContents :
          /\ call' = [ op |-> endpoint, message |-> message,
                       result |-> route_input(message, 0, routing),
                       severity |-> NoSeverity ]
          /\ call'.result.route \notin { "blocked", "unclear" }
    /\ UNCHANGED <<routerVars, store, clock, reply, log>>

\* calculate_severity([request.message]) for a medical route, M1, P0 otherwise
Severity(env, content) ==
    IF call.result.route = "medical"
    THEN calculate_severity(<<call.message>>, env, content)
    ELSE Pair("M1", "P0")

\* chat, from the severity to the response
ChatAnswer ==
    /\ call.op = "chat"
    /\ reply = NoReply
    /\ \E env \in Envs, content \in SeverityContents \cup {Raised} :
          /\ call' = [call EXCEPT !.severity = Severity(env, content)]
          /\ reply' = chat_routed_response(call.message, call.result, call'.severity)
    /\ UNCHANGED <<routerVars, store, clock, log>>

\* create_triage, from the severity to the response
TriageAnswer ==
    /\ call.op = "triage"
    /\ reply = NoReply
    /\ \E env \in Envs, content \in SeverityContents \cup {Raised} :
          /\ call' = [call EXCEPT !.severity = Severity(env, content)]
          /\ reply' = triage_routed_response(call.message, call.result, call'.severity)
    /\ UNCHANGED <<routerVars, store, clock, log>>

\* the response is sent
Responded ==
    /\ reply # NoReply
    /\ call' = NoRequest
    /\ reply' = NoReply
    /\ UNCHANGED <<routerVars, store, clock, log>>

NextSeverity ==
    \/ Score
    \/ Routed
    \/ ChatAnswer
    \/ TriageAnswer
    \/ Responded

SpecSeverity == InitSeverity /\ [][NextSeverity]_vars

(***************************************************************************)
(* The emergency confirmation, src/app/api/emergency.py.                   *)
(* _emergency_confirmation is a dict of the process, session id -> step;   *)
(* store holds it, log the confirm requests received so far.               *)
(***************************************************************************)
\* requests of one run (the stored step grows with every confirmation)
MaxRequests == 5

SessionIds == { "s1", "s2" }

EmptyDict == << >>

\* dict.get(key, default)
Get(dict, key, default) == IF key \in DOMAIN dict THEN dict[key] ELSE default

\* dict[key] = value
Put(dict, key, value) ==
    [ k \in DOMAIN dict \cup { key } |-> IF k = key THEN value ELSE dict[k] ]

EMERGENCY_CANCELLED ==
    "Emergency flow cancelled. If you're safe, you can describe your symptoms for triage."

EMERGENCY_STEP_1 ==
    "Are you or someone else currently experiencing a life-threatening emergency (e.g. chest pain, stroke, severe bleeding, difficulty breathing)? Reply yes to continue."

EMERGENCY_STEP_2 ==
    "Please confirm: you need emergency services now. Reply yes to see emergency numbers and nearby help."

SHARE_LOCATION == "Please share your location to see nearby emergency services."

\* a cancelled confirmation leaves the stored step as it is
next_step_keeps_step_on_cancel(dict, session_id, confirmed) ==
    LET step == Get(dict, session_id, 0) IN
    IF ~confirmed
    THEN [ dict |-> dict, step |-> 0, message |-> EMERGENCY_CANCELLED ]
    ELSE [ dict |-> Put(dict, session_id, step + 1),
           step |-> IF step + 1 >= 3 THEN 3 ELSE step + 1,
           message |-> "show_services" ]

\* _next_step(session_id, confirmed): the dict after the call and the returned
\* (step, message)
next_step(dict, session_id, confirmed) ==
    LET step == Get(dict, session_id, 0) IN
    IF ~confirmed
    THEN [ dict |-> Put(dict, session_id, 0), step |-> 0,
           message |-> EMERGENCY_CANCELLED ]
    ELSE LET step1 == step + 1
             dict1 == Put(dict, session_id, step1)
         IN  CASE step1 = 1 -> [ dict |-> dict1, step |-> 1, message |-> EMERGENCY_STEP_1 ]
               [] step1 = 2 -> [ dict |-> dict1, step |-> 2, message |-> EMERGENCY_STEP_2 ]
               [] step1 >= 3 -> [ dict |-> dict1, step |-> 3, message |-> "show_services" ]
               [] OTHER -> [ dict |-> dict1, step |-> step1, message |-> "" ]

\* confirm_emergency(body): the dict after the call and the response
confirm_emergency(dict, body) ==
    LET r == next_step(dict, body.session_id, body.confirmed) IN
    [ dict |-> r.dict,
      response |->
          IF r.step = 3
          THEN [ status |-> 200, step |-> 3, message |-> SHARE_LOCATION,
                 ready_for_services |-> TRUE ]
          ELSE [ status |-> 200, step |-> r.step, message |-> r.message,
                 ready_for_services |-> FALSE ] ]

InitEmergency ==
    /\ pc = "idle"
    /\ arg = NoArg
    /\ state = NoState
    /\ visited = <<>>
    /\ clsCalls = 0
    /\ clsReply = NoCall
    /\ first = NoRun
    /\ store = EmptyDict
    /\ clock = 0
    /\ call = NoRequest
    /\ reply = NoReply
    /\ log = <<>>

\* POST /emergency/confirm
Confirm ==
    /\ call = NoRequest
    /\ Len(log) < MaxRequests
    /\ \E session_id \in SessionIds, confirmed \in BOOLEAN :
          LET body == [ session_id |-> session_id, confirmed |-> confirmed ]
              r == confirm_emergency(store, body)
          IN  /\ call' = [ op |-> "confirm", body |-> body ]
              /\ store' = r.dict
              /\ reply' = r.response
              /\ log' = Append(log, body)
    /\ UNCHANGED <<routerVars, clock>>

NextEmergency ==
    \/ Confirm
    \/ Responded

SpecEmergency == InitEmergency /\ [][NextEmergency]_vars

(***************************************************************************)
(* The OTC request, src/app/api/pharmacy.py.  store is the users table,    *)
(* user id -> row; log the user ids of the OTC requests received so far.   *)
(***************************************************************************)
\* OTC requests of one run
MaxOtcRequests == 4

max_otc_attempts == 3

\* str(n) of a natural number
RECURSIVE Str(_)
Str(n) ==
    IF n < 10 THEN SubSeq(Digits, n + 1, n + 1)
    ELSE Str(n \div 10) \o SubSeq(Digits, (n % 10) + 1, (n % 10) + 1)

Max(a, b) == IF a >= b THEN a ELSE b

\* a row as the sign-up inserts it (Column defaults)
NewUser(email) ==
    [ email |-> email, otc_attempts_used |-> 0, otc_privilege_status |-> "ACTIVE",
      abuse_strikes |-> 0 ]

\* user ids with a row, and one without
StoredUserIds == { "u1", "u2" }
OtcUserIds == StoredUserIds \cup { "u3" }

OTC_LOCKED_REPLY == "OTC privilege locked. Contact support to request unlock."
OTC_EXHAUSTED_REPLY == "No OTC attempts remaining. OTC privilege locked."

\* request_otc(body): the users table after the call and the response
request_otc(users, body) ==
    IF body.user_id \notin DOMAIN users
    THEN [ users |-> users,
           response |-> [ status |-> "error", message |-> "User not found",
                          otc_attempts_remaining |-> 0 ] ]
    ELSE LET user == users[body.user_id] IN
         IF Upper(Or(user.otc_privilege_status, "")) = "LOCKED"
         THEN [ users |-> users,
                response |-> [ status |-> "locked", message |-> OTC_LOCKED_REPLY,
                               otc_attempts_remaining |-> 0 ] ]
         ELSE LET used == user.otc_attempts_used
                  remaining == Max(0, max_otc_attempts - used)
              IN  IF remaining <= 0
                  THEN [ users |-> Put(users, body.user_id,
                                       [user EXCEPT !.otc_privilege_status = "LOCKED"]),
                         response |-> [ status |-> "locked",
                                        message |-> OTC_EXHAUSTED_REPLY,
                                        otc_attempts_remaining |-> 0 ] ]
                  ELSE [ users |-> users,
                         response |->
                             [ status |-> "pending",
                               otc_attempts_remaining |-> remaining,
                               message |-> "You have " \o Str(remaining)
                                   \o " OTC suggestion(s) remaining. A healthcare professional will review your request." ] ]

InitOtc ==
    /\ pc = "idle"
    /\ arg = NoArg
    /\ state = NoState
    /\ visited = <<>>
    /\ clsCalls = 0
    /\ clsReply = NoCall
    /\ first = NoRun
    /\ store = [ id \in StoredUserIds |-> NewUser(id \o "@example.com") ]
    /\ clock = 0
    /\ call = NoRequest
    /\ reply = NoReply
    /\ log = <<>>

\* POST /pharmacy/otc-request
RequestOtc ==
    /\ call = NoRequest
    /\ Len(log) < MaxOtcRequests
    /\ \E user_id \in OtcUserIds :
          LET body == [ user_id |-> user_id, symptom |-> "headache" ]
              r == request_otc(store, body)
          IN  /\ call' = [ op |-> "otc", body |-> body ]
              /\ store' = r.users
              /\ reply' = r.response
              /\ log' = Append(log, user_id)
    /\ UNCHANGED <<routerVars, clock>>

NextOtc ==
    \/ RequestOtc
    \/ Responded

SpecOtc == InitOtc /\ [][NextOtc]_vars

(***************************************************************************)
(* The message quota, src/app/core/auth_utils.py.                          *)
(***************************************************************************)
ANON_PREFIX == "anon_"

max_messages_anonymous == 6
max_messages_logged_in == 20
TESTER_LIMIT == 9999

\* db.query(User)...first() found no row
NoRow == [ row |-> FALSE ]

\* str.startswith(prefix)
StartsWith(s, prefix) ==
    Len(prefix) <= Len(s) /\ SubSeq(s, 1, Len(prefix)) = prefix

\* str.split(","): cut at every comma, empty pieces kept
RECURSIVE SplitCommas(_, _)
SplitCommas(s, cur) ==
    IF s = "" THEN <<cur>>
    ELSE IF Head(s) = ","
         THEN <<cur>> \o SplitCommas(Tail(s), "")
         ELSE SplitCommas(Tail(s), cur \o Head(s))

\* _tester_emails_set()
tester_emails_set(tester_emails) ==
    LET pieces == SplitCommas(Or(tester_emails, ""), "") IN
    { Lower(Strip(pieces[i])) : i \in { j \in 1 .. Len(pieces) : Strip(pieces[j]) # "" } }

\* is_tester_email(email)
is_tester_email(email, tester_emails) ==
    IF email = None \/ email = "" THEN FALSE
    ELSE Lower(Strip(email)) \in tester_emails_set(tester_emails)

\* a stored user with a tester's email gets the logged-in limit
get_message_limit_for_user_no_testers(user_id, user_obj, tester_emails) ==
    IF user_id = None \/ user_id = "" THEN max_messages_anonymous
    ELSE IF StartsWith(user_id, ANON_PREFIX) THEN max_messages_anonymous
    ELSE IF user_obj # NoRow /\ user_obj.email # None /\ user_obj.email # ""
         THEN max_messages_logged_in
         ELSE max_messages_anonymous

\* get_message_limit_for_user(user_id, user_obj) under settings.tester_emails
get_message_limit_for_user(user_id, user_obj, tester_emails) ==
    IF user_id = None \/ user_id = "" THEN max_messages_anonymous
    ELSE IF StartsWith(user_id, ANON_PREFIX) THEN max_messages_anonymous
    ELSE IF user_obj # NoRow /\ user_obj.email # None /\ user_obj.email # ""
         THEN IF is_tester_email(user_obj.email, tester_emails)
              THEN TESTER_LIMIT
              ELSE max_messages_logged_in
         ELSE max_messages_anonymous

QuotaUserIds == { None, "", "anon_1f9c", "anon_", "anonymous", "Anon_1", "u1" }

QuotaEmails ==
    { None, "", "saikrishnachalavadi@yahoo.com", " SaiKrishnaChalavadi@Yahoo.com ",
      "pat@example.com", "saikrishnachalavadi@yahoo.co" }

\* no row, or a row
QuotaUsers == { NoRow } \cup { NewUser(email) : email \in QuotaEmails }

\* settings.tester_emails: the default, none, and a list
TesterSettings ==
    { "saikrishnachalavadi@yahoo.com", "", None,
      "Pat@Example.com , saikrishnachalavadi@yahoo.com,," }

InitQuota ==
    /\ pc = "idle"
    /\ arg = NoArg
    /\ state = NoState
    /\ visited = <<>>
    /\ clsCalls = 0
    /\ clsReply = NoCall
    /\ first = NoRun
    /\ store = Unused
    /\ clock = 0
    /\ call = NoRequest
    /\ reply = NoReply
    /\ log = Unused

\* get_message_limit_for_user(user_id, user_obj)
Limit ==
    /\ call = NoRequest
    /\ \E user_id \in QuotaUserIds, user_obj \in QuotaUsers,
          tester_emails \in TesterSettings :
          /\ call' = [ op |-> "get_message_limit_for_user", user_id |-> user_id,
                       user_obj |-> user_obj, tester_emails |-> tester_emails ]
          /\ reply' = [ limit |-> get_message_limit_for_user(user_id, user_obj,
                                                                tester_emails) ]
    /\ UNCHANGED <<routerVars, store, clock, log>>

NextQuota ==
    \/ Limit
    \/ Responded

SpecQuota == InitQuota /\ [][NextQuota]_vars

(***************************************************************************)
(* The chat and triage endpoints with the session gate and the stored      *)
(* strike count, src/app/api/chat.py and src/app/api/triage.py.  store is  *)
(* the database: users (user id -> row) and sessions (the rows in the      *)
(* order of their creation; a row's index stands for its uuid).  clock is  *)
(* datetime.utcnow(), counted in ticks.  The settings of the session gate  *)
(* are scaled down: a day lasts DayTicks ticks.                            *)
(***************************************************************************)
\* requests of one run
MaxUserRequests == 5
\* timedelta(days=1), in ticks
DayTicks == 4
\* settings.max_sessions_per_day (9999 by default, "e.g. 10" in production)
max_sessions_per_day == 2
\* settings.session_timeout_minutes, in ticks
session_timeout_minutes == 1

SESSION_CAP_REPLY == "Maximum sessions per day reached. Please try again tomorrow."

SessionsOf(db, user_id) ==
    { i \in DOMAIN db.sessions : db.sessions[i].user_id = user_id }

\* SessionModel(user_id=..., status="ACTIVE", message_count=0) with the column
\* defaults created_at = last_activity = utcnow()
NewSession(user_id, now) ==
    [ user_id |-> user_id, created_at |-> now, last_activity |-> now,
      message_count |-> 0, status |-> "ACTIVE" ]

\* order_by(created_at.desc()).first(): the latest row (of rows created at the
\* same time, the one inserted last)
Latest(db, rows) ==
    CHOOSE i \in rows :
        \A j \in rows :
            \/ db.sessions[j].created_at < db.sessions[i].created_at
            \/ db.sessions[j].created_at = db.sessions[i].created_at /\ j <= i

\* filter(...).first(): the first row in insertion order
First(rows) == CHOOSE i \in rows : \A j \in rows : i <= j

\* an idle session is replaced without being marked TIMEOUT
get_or_create_session_keeps_stale_active(db, user_id, now) ==
    LET mine == SessionsOf(db, user_id)
        same_day == Cardinality({ i \in mine : db.sessions[i].created_at >= now - DayTicks })
        actives == { i \in mine : db.sessions[i].status = "ACTIVE" }
        active == IF actives = {} THEN 0 ELSE First(actives)
        stale == active # 0 /\ db.sessions[active].last_activity < now - session_timeout_minutes
    IN  IF same_day >= max_sessions_per_day
        THEN [ db |-> db, session |-> IF mine = {} THEN 0 ELSE Latest(db, mine),
               error |-> SESSION_CAP_REPLY ]
        ELSE IF active = 0 \/ stale
        THEN [ db |-> [db EXCEPT !.sessions = Append(@, NewSession(user_id, now))],
               session |-> Len(db.sessions) + 1, error |-> None ]
        ELSE [ db |-> db, session |-> active, error |-> None ]

\* the daily cap is looked at only when a session has to be created
get_or_create_session_cap_on_creation(db, user_id, now) ==
    LET mine == SessionsOf(db, user_id)
        same_day == Cardinality({ i \in mine : db.sessions[i].created_at >= now - DayTicks })
        actives == { i \in mine : db.sessions[i].status = "ACTIVE" }
        active == IF actives = {} THEN 0 ELSE First(actives)
        stale == active # 0 /\ db.sessions[active].last_activity < now - session_timeout_minutes
        db1 == IF stale THEN [db EXCEPT !.sessions[active].status = "TIMEOUT"] ELSE db
    IN  IF active # 0 /\ ~stale
        THEN [ db |-> db, session |-> active, error |-> None ]
        ELSE IF same_day >= max_sessions_per_day
        THEN [ db |-> db, session |-> IF mine = {} THEN 0 ELSE Latest(db, mine),
               error |-> SESSION_CAP_REPLY ]
        ELSE [ db |-> [db1 EXCEPT !.sessions = Append(@, NewSession(user_id, now))],
               session |-> Len(db.sessions) + 1, error |-> None ]

\* the daily cap counts one session too few
get_or_create_session_cap_off_by_one(db, user_id, now) ==
    LET mine == SessionsOf(db, user_id)
        same_day == Cardinality({ i \in mine : db.sessions[i].created_at >= now - DayTicks })
        actives == { i \in mine : db.sessions[i].status = "ACTIVE" }
        active == IF actives = {} THEN 0 ELSE First(actives)
        stale == active # 0 /\ db.sessions[active].last_activity < now - session_timeout_minutes
        db1 == IF stale THEN [db EXCEPT !.sessions[active].status = "TIMEOUT"] ELSE db
    IN  IF same_day > max_sessions_per_day
        THEN [ db |-> db, session |-> IF mine = {} THEN 0 ELSE Latest(db, mine),
               error |-> SESSION_CAP_REPLY ]
        ELSE IF active = 0 \/ stale
        THEN [ db |-> [db1 EXCEPT !.sessions = Append(@, NewSession(user_id, now))],
               session |-> Len(db.sessions) + 1, error |-> None ]
        ELSE [ db |-> db, session |-> active, error |-> None ]

\* _get_or_create_session(db, user_id) at time now: the database after the
\* call, the session returned (0 for None) and the error message
get_or_create_session(db, user_id, now) ==
    LET cutoff == now - DayTicks
        mine == SessionsOf(db, user_id)
        same_day == Cardinality({ i \in mine : db.sessions[i].created_at >= cutoff })
        actives == { i \in mine : db.sessions[i].status = "ACTIVE" }
        active == IF actives = {} THEN 0 ELSE First(actives)
        timeout == now - session_timeout_minutes
        stale == active # 0 /\ db.sessions[active].last_activity < timeout
        db1 == IF stale THEN [db EXCEPT !.sessions[active].status = "TIMEOUT"] ELSE db
    IN  IF same_day >= max_sessions_per_day
        THEN [ db |-> db, session |-> IF mine = {} THEN 0 ELSE Latest(db, mine),
               error |-> SESSION_CAP_REPLY ]
        ELSE IF active = 0 \/ stale
        THEN [ db |-> [db1 EXCEPT !.sessions = Append(@, NewSession(user_id, now))],
               session |-> Len(db.sessions) + 1, error |-> None ]
        ELSE [ db |-> db, session |-> active, error |-> None ]

\* chat.py's _limit_reached_message
limit_reached_message(limit) ==
    IF limit <= 6 THEN "You've used your 6 free messages. Sign in to get 20 messages."
    ELSE "You've reached the message limit for this session. Sign in for more messages."

\* triage.py's text for the same case
triage_limit_reached_message(limit) ==
    IF limit <= 6 THEN "You've used your 6 free messages. Sign in to get 20 messages."
    ELSE "You've reached the message limit. Sign in for more messages."

TRIAGE_UNCLEAR_REPLY ==
    "I can only help with health-related questions. Tell me about a symptom or what you need (e.g. doctor, pharmacy, lab)."

UNCLEAR_REPLY_MAX_LEN == 200

\* _generate_unclear_reply(user_message): content is resp.content of its call
generate_unclear_reply(env, content) ==
    IF env.google_api_key \in { None, "" } THEN UNCLEAR_FALLBACK
    ELSE IF ~env.langchain \/ content = Raised THEN UNCLEAR_FALLBACK
    ELSE LET text == Strip(Or(content, "")) IN
         IF text # "" /\ Len(text) < UNCLEAR_REPLY_MAX_LEN THEN text ELSE UNCLEAR_FALLBACK

\* user = db.query(User).filter(User.id == effective_user_id).first()
UserRow(db, user_id) == IF user_id \in DOMAIN db.users THEN db.users[user_id] ELSE NoRow

RouterFailed == [ status |-> 503 ]

\* the message is counted when the request arrives, before the router runs
admit_counts_on_arrival(db, now, request, tester_emails) ==
    LET user == UserRow(db, request.user_id)
        s == get_or_create_session(db, request.user_id, now)
        counted == IF s.error = None
                   THEN [s.db EXCEPT !.sessions[s.session].message_count = @ + 1]
                   ELSE s.db
    IN  [ db |-> counted, session |-> s.session, error |-> s.error,
          has_user |-> user # NoRow,
          abuse_strikes |-> IF user # NoRow THEN user.abuse_strikes ELSE 0,
          limit |-> get_message_limit_for_user(request.user_id, user, tester_emails),
          message_count |-> IF s.session = 0 THEN 0
                            ELSE s.db.sessions[s.session].message_count ]

\* chat and create_triage up to the call of route_input: the user row, the
\* stored strikes, the limit and the session, with the database after
\* _get_or_create_session
admit(db, now, request, tester_emails) ==
    LET user == UserRow(db, request.user_id)
        s == get_or_create_session(db, request.user_id, now)
    IN  [ db |-> s.db, session |-> s.session, error |-> s.error,
          has_user |-> user # NoRow,
          abuse_strikes |-> IF user # NoRow THEN user.abuse_strikes ELSE 0,
          limit |-> get_message_limit_for_user(request.user_id, user, tester_emails),
          message_count |-> IF s.session = 0 THEN 0
                            ELSE s.db.sessions[s.session].message_count ]

\* the quota refuses only above the limit
chat_refused_above_limit(a) ==
    IF a.error # None
    THEN [ status |-> 200, message |-> a.error, action |-> None,
           doctor_specialty |-> None, session_id |-> a.session,
           remaining_prompts |-> None ]
    ELSE IF a.message_count > a.limit
    THEN [ status |-> 200, message |-> limit_reached_message(a.limit), action |-> None,
           doctor_specialty |-> None, session_id |-> a.session, remaining_prompts |-> 0 ]
    ELSE NoReply

\* chat: the response when the session gate or the quota refuses the request,
\* NoReply when it goes on to the router
chat_refused(a) ==
    IF a.error # None
    THEN [ status |-> 200, message |-> a.error, action |-> None,
           doctor_specialty |-> None, session_id |-> a.session,
           remaining_prompts |-> None ]
    ELSE IF a.message_count >= a.limit
    THEN [ status |-> 200, message |-> limit_reached_message(a.limit), action |-> None,
           doctor_specialty |-> None, session_id |-> a.session, remaining_prompts |-> 0 ]
    ELSE NoReply

\* create_triage: the same
triage_refused(a) ==
    IF a.error # None
    THEN [ status |-> 200, session_id |-> a.session, severity_medical |-> "M0",
           severity_psychological |-> "P0", recommended_action |-> "blocked",
           message |-> a.error ]
    ELSE IF a.message_count >= a.limit
    THEN [ status |-> 200, session_id |-> a.session, severity_medical |-> "M0",
           severity_psychological |-> "P0", recommended_action |-> "blocked",
           message |-> triage_limit_reached_message(a.limit) ]
    ELSE NoReply

\* the message is counted without refreshing last_activity
Touch_keeps_last_activity(db, c, now) ==
    [db EXCEPT !.sessions[c.session].message_count = c.message_count + 1]

\* session.last_activity = utcnow(); session.message_count = (session.message_count
\* or 0) + 1; db.commit(), on the session object loaded before the router ran
Touch(db, c, now) ==
    [db EXCEPT !.sessions[c.session].last_activity = now,
               !.sessions[c.session].message_count = c.message_count + 1]

\* if user and result.get("abuse_strikes") is not None:
\*     user.abuse_strikes = result["abuse_strikes"]; db.commit()
StoreStrikes(db, c) ==
    IF c.has_user
    THEN [db EXCEPT !.users[c.request.user_id].abuse_strikes = c.result.abuse_strikes]
    ELSE db

\* remaining_prompts is computed before the message is counted
chat_remaining_before_count(db, now, c, llm) ==
    LET route == IF c.result.route = "" THEN "medical" ELSE c.result.route IN
    IF route = "blocked"
    THEN [ db |-> StoreStrikes(db, c),
           response |->
               [ status |-> 200, message |-> chat_blocked_message(c.result),
                 action |-> None, doctor_specialty |-> None, session_id |-> c.session,
                 remaining_prompts |-> c.limit - c.message_count ] ]
    ELSE IF route = "unclear"
    THEN [ db |-> Touch(db, c, now),
           response |->
               [ status |-> 200, message |-> generate_unclear_reply(llm.env, llm.unclear),
                 action |-> None, doctor_specialty |-> None, session_id |-> c.session,
                 remaining_prompts |-> c.limit - c.message_count ] ]
    ELSE
    LET sev == IF route = "medical"
               THEN calculate_severity(<<c.request.message>>, llm.env, llm.severity)
               ELSE Pair("M1", "P0")
        answer == chat_routed_response(c.request.message, c.result, sev)
    IN  [ db |-> Touch(db, c, now),
          response |->
              IF answer.status = 500 THEN ServerError
              ELSE [ status |-> 200, message |-> answer.message, action |-> answer.action,
                     doctor_specialty |-> answer.doctor_specialty,
                     session_id |-> c.session,
                     remaining_prompts |-> c.limit - c.message_count ] ]

\* chat from the result of route_input on: the database after the call and
\* the response.  c is the request with what was read before the router ran,
\* llm what the model calls return.
chat(db, now, c, llm) ==
    LET route == IF c.result.route = "" THEN "medical" ELSE c.result.route IN
    \* the commit of the strikes expires the session object: its message_count
    \* is read again from the database
    IF route = "blocked"
    THEN [ db |-> StoreStrikes(db, c),
           response |->
               [ status |-> 200, message |-> chat_blocked_message(c.result),
                 action |-> None, doctor_specialty |-> None, session_id |-> c.session,
                 remaining_prompts |->
                     c.limit - (IF c.has_user THEN db.sessions[c.session].message_count
                                ELSE c.message_count) ] ]
    ELSE IF route = "unclear"
    THEN [ db |-> Touch(db, c, now),
           response |->
               [ status |-> 200, message |-> generate_unclear_reply(llm.env, llm.unclear),
                 action |-> None, doctor_specialty |-> None, session_id |-> c.session,
                 remaining_prompts |-> c.limit - (c.message_count + 1) ] ]
    ELSE
    LET sev == IF route = "medical"
               THEN calculate_severity(<<c.request.message>>, llm.env, llm.severity)
               ELSE Pair("M1", "P0")
        answer == chat_routed_response(c.request.message, c.result, sev)
    IN  [ db |-> Touch(db, c, now),
          response |->
              IF answer.status = 500 THEN ServerError
              ELSE [ status |-> 200, message |-> answer.message, action |-> answer.action,
                     doctor_specialty |-> answer.doctor_specialty,
                     session_id |-> c.session,
                     remaining_prompts |-> c.limit - (c.message_count + 1) ] ]

\* create_triage from the result of route_input on
create_triage(db, now, c, llm) ==
    LET route == IF c.result.route = "" THEN "medical" ELSE c.result.route IN
    IF route = "blocked"
    THEN [ db |-> StoreStrikes(db, c),
           response |->
               [ status |-> 200, session_id |-> c.session, severity_medical |-> "M0",
                 severity_psychological |-> "P0", recommended_action |-> "blocked",
                 message |-> triage_blocked_message(c.result) ] ]
    ELSE IF route = "unclear"
    THEN [ db |-> Touch(db, c, now),
           response |->
               [ status |-> 200, session_id |-> c.session, severity_medical |-> "M0",
                 severity_psychological |-> "P0", recommended_action |-> "unclear",
                 message |-> TRIAGE_UNCLEAR_REPLY ] ]
    ELSE
    LET sev == IF route = "medical"
               THEN calculate_severity(<<c.request.message>>, llm.env, llm.severity)
               ELSE Pair("M1", "P0")
        answer == triage_routed_response(c.request.message, c.result, sev)
    IN  [ db |-> Touch(db, c, now),
          response |->
              IF answer.status = 500 THEN ServerError
              ELSE [ status |-> 200, session_id |-> c.session,
                     severity_medical |-> answer.severity_medical,
                     severity_psychological |-> answer.severity_psychological,
                     recommended_action |-> answer.recommended_action,
                     message |-> answer.message ] ]

(***************************************************************************)
(* Requests of two users, one with a row in users and one without, served  *)
(* one at a time.  A request is served in three steps: up to the router,   *)
(* the router, and from its result to the response; nothing else happens   *)
(* in between.  log counts the requests and, for every user, the           *)
(* out-of-scope messages answered with the scope block.                    *)
(***************************************************************************)
UserIds == { "u1", "anon_1f9c" }

UserMessages == { "weather", "fever", "I want a doctor", "Hello!" }

TESTER_EMAILS == "saikrishnachalavadi@yahoo.com"

\* what the model calls after the router return (the severity scorer and the
\* unclear-reply writer): both answer, both fail, or no key is configured
UserLlm ==
    { [ env |-> [ langchain |-> TRUE, google_api_key |-> "key" ],
        severity |-> "M2,P0", unclear |-> "Tell me about a symptom." ],
      [ env |-> [ langchain |-> TRUE, google_api_key |-> "key" ],
        severity |-> Raised, unclear |-> Raised ],
      [ env |-> [ langchain |-> TRUE, google_api_key |-> None ],
        severity |-> None, unclear |-> None ] }

InitUser ==
    /\ pc = "idle"
    /\ arg = NoArg
    /\ state = NoState
    /\ visited = <<>>
    /\ clsCalls = 0
    /\ clsReply = NoCall
    /\ first = NoRun
    /\ store = [ users |-> [ id \in { "u1" } |-> NewUser("pat@example.com") ],
                 sessions |-> <<>> ]
    /\ clock = 0
    /\ call = NoRequest
    /\ reply = NoReply
    /\ log = [ requests |-> 0, blocked |-> [ id \in UserIds |-> 0 ] ]

\* an endpoint takes a request up to the call of the router, or refuses it
Admitted(endpoint, request) ==
    LET a == admit(store, clock, request, TESTER_EMAILS) IN
    /\ store' = a.db
    /\ call' = [ op |-> endpoint, request |-> request, before |-> store,
                 blocked_before |-> log.blocked[request.user_id],
                 session |-> a.session, has_user |-> a.has_user,
                 abuse_strikes |-> a.abuse_strikes, limit |-> a.limit,
                 message_count |-> a.message_count, result |-> NoState ]
    /\ reply' = IF endpoint = "chat" THEN chat_refused(a) ELSE triage_refused(a)
    /\ log' = [log EXCEPT !.requests = @ + 1]

\* POST /chat or POST /triage arrives
Admit ==
    /\ call = NoRequest
    /\ log.requests < MaxUserRequests
    /\ \E endpoint \in { "chat", "triage" }, user_id \in UserIds,
          message \in UserMessages :
          Admitted(endpoint, [ user_id |-> user_id, message |-> message ])
    /\ UNCHANGED <<routerVars, clock>>

\* result = await route_input(...); an exception of it is answered with 503
Route ==
    /\ call # NoRequest
    /\ reply = NoReply
    /\ call.result = NoState
    /\ \E routing \in { "MEDICAL", Raised } :
          call' = [call EXCEPT !.result =
                      route_input(call.request.message, call.abuse_strikes, routing)]
    /\ reply' = IF call'.result.route = Raised THEN RouterFailed ELSE NoReply
    /\ UNCHANGED <<routerVars, store, clock, log>>

\* the response is the scope block of the guardrails
AnsweredWithScopeBlock(message, response) ==
    LET scope == check_medical_scope(message) IN
    /\ response.status = 200
    /\ ~scope[1]
    /\ response.message = scope[2]

\* chat, from the router's result to the response
Chat ==
    /\ call.op = "chat"
    /\ reply = NoReply
    /\ call.result # NoState
    /\ \E llm \in UserLlm :
          LET r == chat(store, clock, call, llm) IN
          /\ store' = r.db
          /\ reply' = r.response
    /\ log' = IF AnsweredWithScopeBlock(call.request.message, reply')
              THEN [log EXCEPT !.blocked[call.request.user_id] = @ + 1]
              ELSE log
    /\ UNCHANGED <<routerVars, clock, call>>

\* create_triage, from the router's result to the response
Triage ==
    /\ call.op = "triage"
    /\ reply = NoReply
    /\ call.result # NoState
    /\ \E llm \in UserLlm :
          LET r == create_triage(store, clock, call, llm) IN
          /\ store' = r.db
          /\ reply' = r.response
    /\ log' = IF AnsweredWithScopeBlock(call.request.message, reply')
              THEN [log EXCEPT !.blocked[call.request.user_id] = @ + 1]
              ELSE log
    /\ UNCHANGED <<routerVars, clock, call>>

NextUser ==
    \/ Admit
    \/ Route
    \/ Chat
    \/ Triage
    \/ Responded

SpecUser == InitUser /\ [][NextUser]_vars

(***************************************************************************)
(* The same endpoints while time passes: the session gate.  The requests   *)
(* are those of the signed-up user; the sessions table holds a session of  *)
(* the other user from the start.                                          *)
(***************************************************************************)
\* requests of one run
MaxSessionRequests == 4
\* the latest time of a run
MaxTime == 5

SessionMessages == { "fever", "weather" }

SessionUserIds == { "u1" }

InitSessions ==
    /\ pc = "idle"
    /\ arg = NoArg
    /\ state = NoState
    /\ visited = <<>>
    /\ clsCalls = 0
    /\ clsReply = NoCall
    /\ first = NoRun
    /\ store = [ users |-> [ id \in { "u1" } |-> NewUser("pat@example.com") ],
                 sessions |-> << NewSession("anon_1f9c", 0) >> ]
    /\ clock = 0
    /\ call = NoRequest
    /\ reply = NoReply
    /\ log = [ requests |-> 0, blocked |-> [ id \in UserIds |-> 0 ] ]

\* time passes between two requests
Tick ==
    /\ call = NoRequest
    /\ clock < MaxTime
    /\ clock' = clock + 1
    /\ UNCHANGED <<routerVars, store, call, reply, log>>

\* POST /chat or POST /triage arrives
SessionAdmit ==
    /\ call = NoRequest
    /\ log.requests < MaxSessionRequests
    /\ \E endpoint \in { "chat", "triage" }, user_id \in SessionUserIds,
          message \in SessionMessages :
          Admitted(endpoint, [ user_id |-> user_id, message |-> message ])
    /\ UNCHANGED <<routerVars, clock>>

NextSessions ==
    \/ Tick
    \/ SessionAdmit
    \/ Route
    \/ Chat
    \/ Triage
    \/ Responded

SpecSessions == InitSessions /\ [][NextSessions]_vars

(***************************************************************************)
(* The same endpoints on sessions that are close to the message limit:     *)
(* the quota.  Both users have an ACTIVE session from time 0 that has      *)
(* counted all but a few of the messages the user may send; the router's   *)
(* classifier answers with each of its categories or fails.                *)
(***************************************************************************)
\* requests of one run
MaxGateRequests == 4
\* the latest time of a run
MaxGateTime == 2

\* response.content of the routing classifier
GateRoutings == { "MEDICAL", "UNCLEAR", "EMERGENCY", Raised }

\* a session created at time 0 that has counted message_count messages since
UsedSession(user_id, message_count) ==
    [NewSession(user_id, 0) EXCEPT !.message_count = message_count]

InitGate ==
    /\ pc = "idle"
    /\ arg = NoArg
    /\ state = NoState
    /\ visited = <<>>
    /\ clsCalls = 0
    /\ clsReply = NoCall
    /\ first = NoRun
    /\ store = [ users |-> [ id \in { "u1" } |-> NewUser("pat@example.com") ],
                 sessions |-> << UsedSession("anon_1f9c", max_messages_anonymous - 2),
                                 UsedSession("u1", max_messages_logged_in - 1) >> ]
    /\ clock = 0
    /\ call = NoRequest
    /\ reply = NoReply
    /\ log = [ requests |-> 0, blocked |-> [ id \in UserIds |-> 0 ] ]

\* time passes between two requests
GateTick ==
    /\ call = NoRequest
    /\ clock < MaxGateTime
    /\ clock' = clock + 1
    /\ UNCHANGED <<routerVars, store, call, reply, log>>

\* POST /chat or POST /triage arrives
GateAdmit ==
    /\ call = NoRequest
    /\ log.requests < MaxGateRequests
    /\ \E endpoint \in { "chat", "triage" }, user_id \in UserIds,
          message \in UserMessages :
          Admitted(endpoint, [ user_id |-> user_id, message |-> message ])
    /\ UNCHANGED <<routerVars, clock>>

\* result = await route_input(...); an exception of it is answered with 503
GateRoute ==
    /\ call # NoRequest
    /\ reply = NoReply
    /\ call.result = NoState
    /\ \E routing \in GateRoutings :
          call' = [call EXCEPT !.result =
                      route_input(call.request.message, call.abuse_strikes, routing)]
    /\ reply' = IF call'.result.route = Raised THEN RouterFailed ELSE NoReply
    /\ UNCHANGED <<routerVars, store, clock, log>>

NextGate ==
    \/ GateTick
    \/ GateAdmit
    \/ GateRoute
    \/ Chat
    \/ Triage
    \/ Responded

SpecGate == InitGate /\ [][NextGate]_vars

(***************************************************************************)
(* Two requests of the signed-up user served at the same time by two       *)
(* workers on one database.  A worker's steps are those of a request       *)
(* above; the steps of the two interleave.  call and reply hold one entry  *)
(* per worker.                                                             *)
(***************************************************************************)
\* requests of one run
MaxRaceRequests == 3

Workers == { 1, 2 }

RaceMessages == { "weather", "fever" }

InitRace ==
    /\ pc = "idle"
    /\ arg = NoArg
    /\ state = NoState
    /\ visited = <<>>
    /\ clsCalls = 0
    /\ clsReply = NoCall
    /\ first = NoRun
    /\ store = [ users |-> [ id \in { "u1" } |-> NewUser("pat@example.com") ],
                 sessions |-> <<>> ]
    /\ clock = 0
    /\ call = [ w \in Workers |-> NoRequest ]
    /\ reply = [ w \in Workers |-> NoReply ]
    /\ log = [ requests |-> 0 ]

\* a worker takes a request up to the call of the router, or refuses it
RaceAdmit ==
    /\ log.requests < MaxRaceRequests
    /\ \E w \in Workers, endpoint \in { "chat", "triage" }, message \in RaceMessages :
          LET request == [ user_id |-> "u1", message |-> message ]
              a == admit(store, clock, request, TESTER_EMAILS)
          IN  /\ call[w] = NoRequest
              /\ store' = a.db
              /\ call' = [call EXCEPT ![w] =
                            [ op |-> endpoint, request |-> request, before |-> store,
                              session |-> a.session, has_user |-> a.has_user,
                              abuse_strikes |-> a.abuse_strikes, limit |-> a.limit,
                              message_count |-> a.message_count, result |-> NoState ]]
              /\ reply' = [reply EXCEPT ![w] =
                             IF endpoint = "chat" THEN chat_refused(a)
                             ELSE triage_refused(a)]
    /\ log' = [log EXCEPT !.requests = @ + 1]
    /\ UNCHANGED <<routerVars, clock>>

\* the router runs for a worker's request
RaceRoute ==
    /\ \E w \in Workers, routing \in { "MEDICAL", Raised } :
          /\ call[w] # NoRequest
          /\ reply[w] = NoReply
          /\ call[w].result = NoState
          /\ call' = [call EXCEPT ![w].result =
                         route_input(call[w].request.message, call[w].abuse_strikes,
                                     routing)]
          /\ reply' = [reply EXCEPT ![w] =
                          IF call'[w].result.route = Raised THEN RouterFailed
                          ELSE NoReply]
    /\ UNCHANGED <<routerVars, store, clock, log>>

\* a worker goes from the router's result to the response
RaceAnswer ==
    /\ \E w \in Workers, llm \in UserLlm :
          /\ call[w] # NoRequest
          /\ reply[w] = NoReply
          /\ call[w].result # NoState
          /\ LET r == IF call[w].op = "chat"
                      THEN chat(store, clock, call[w], llm)
                      ELSE create_triage(store, clock, call[w], llm)
             IN  /\ store' = r.db
                 /\ reply' = [reply EXCEPT ![w] = r.response]
    /\ UNCHANGED <<routerVars, clock, call, log>>

\* a worker's response is sent
RaceResponded ==
    /\ \E w \in Workers :
          /\ reply[w] # NoReply
          /\ call' = [call EXCEPT ![w] = NoRequest]
          /\ reply' = [reply EXCEPT ![w] = NoReply]
    /\ UNCHANGED <<routerVars, store, clock, log>>

NextRace ==
    \/ RaceAdmit
    \/ RaceRoute
    \/ RaceAnswer
    \/ RaceResponded

SpecRace == InitRace /\ [][NextRace]_vars

(***************************************************************************)
(* Two workers again, on a session of the signed-up user that has one      *)
(* message left of its quota.  Every message here is one that is counted   *)
(* (no scope block, no router failure).  log also counts the requests      *)
(* that reached route_input (routed) and those answered after the router   *)
(* (counted), starting with the messages the session has counted before.   *)
(***************************************************************************)
\* requests of one run
MaxQuotaRaceRequests == 3

QuotaRaceMessages == { "fever", "Hello!" }

InitQuotaRace ==
    /\ pc = "idle"
    /\ arg = NoArg
    /\ state = NoState
    /\ visited = <<>>
    /\ clsCalls = 0
    /\ clsReply = NoCall
    /\ first = NoRun
    /\ store = [ users |-> [ id \in { "u1" } |-> NewUser("pat@example.com") ],
                 sessions |-> << UsedSession("u1", max_messages_logged_in - 1) >> ]
    /\ clock = 0
    /\ call = [ w \in Workers |-> NoRequest ]
    /\ reply = [ w \in Workers |-> NoReply ]
    /\ log = [ requests |-> 0, routed |-> max_messages_logged_in - 1,
               counted |-> max_messages_logged_in - 1 ]

\* a worker takes a request up to the call of the router, or refuses it
QuotaRaceAdmit ==
    /\ log.requests < MaxQuotaRaceRequests
    /\ \E w \in Workers, endpoint \in { "chat", "triage" },
          message \in QuotaRaceMessages :
          LET request == [ user_id |-> "u1", message |-> message ]
              a == admit(store, clock, request, TESTER_EMAILS)
          IN  /\ call[w] = NoRequest
              /\ store' = a.db
              /\ call' = [call EXCEPT ![w] =
                            [ op |-> endpoint, request |-> request, before |-> store,
                              session |-> a.session, has_user |-> a.has_user,
                              abuse_strikes |-> a.abuse_strikes, limit |-> a.limit,
                              message_count |-> a.message_count, result |-> NoState ]]
              /\ reply' = [reply EXCEPT ![w] =
                             IF endpoint = "chat" THEN chat_refused(a)
                             ELSE triage_refused(a)]
    /\ log' = [log EXCEPT !.requests = @ + 1]
    /\ UNCHANGED <<routerVars, clock>>

\* the router runs for a worker's request
QuotaRaceRoute ==
    /\ \E w \in Workers, routing \in { "MEDICAL", "UNCLEAR" } :
          /\ call[w] # NoRequest
          /\ reply[w] = NoReply
          /\ call[w].result = NoState
          /\ call' = [call EXCEPT ![w].result =
                         route_input(call[w].request.message, call[w].abuse_strikes,
                                     routing)]
    /\ log' = [log EXCEPT !.routed = @ + 1]
    /\ UNCHANGED <<routerVars, store, clock, reply>>

\* a worker goes from the router's result to the response
QuotaRaceAnswer ==
    /\ \E w \in Workers, llm \in UserLlm :
          /\ call[w] # NoRequest
          /\ reply[w] = NoReply
          /\ call[w].result # NoState
          /\ LET r == IF call[w].op = "chat"
                      THEN chat(store, clock, call[w], llm)
                      ELSE create_triage(store, clock, call[w], llm)
             IN  /\ store' = r.db
                 /\ reply' = [reply EXCEPT ![w] = r.response]
    /\ log' = [log EXCEPT !.counted = @ + 1]
    /\ UNCHANGED <<routerVars, clock, call>>

NextQuotaRace ==
    \/ QuotaRaceAdmit
    \/ QuotaRaceRoute
    \/ QuotaRaceAnswer
    \/ RaceResponded

SpecQuotaRace == InitQuotaRace /\ [][NextQuotaRace]_vars

(***************************************************************************)
(* Vocabulary of the properties.                                           *)
(***************************************************************************)
EmergencyTerms ==
    { "stroke", "chest pain", "heart attack", "severe bleeding", "unconscious",
      "not breathing", "seizure", "overdose", "can't breathe", "suicidal",
      "suicide", "severe pain" }

ScopeTerms ==
    { "weather", "sports", "politics", "recipe", "movie", "game", "joke",
      "story", "homework" }

IntentOrder == << "doctor_handoff", "pharmacy_handoff", "lab_handoff", "emergency" >>

StageOrder ==
    << "greeting", "guardrails", "intent_override", "emergency_keywords", "ai_classify" >>

Mentions(m, terms) == \E t \in terms : Contains(Lower(m), t)

\* the greeting check answers the message as a greeting
IsGreeting(m) == check_greeting(initial_state(m, 0)).route = "greeting"

\* the phrases DIRECT_INTENT_MAP lists for a route
PhrasesOf(intent) ==
    LET i == CHOOSE j \in 1..Len(DIRECT_INTENT_MAP) : DIRECT_INTENT_MAP[j].intent = intent
    IN  DIRECT_INTENT_MAP[i].phrases

MatchesIntent(m, intent) == AnyIn(PhrasesOf(intent), Lower(m))

MatchesAnyIntent(m) == \E i \in 1..Len(IntentOrder) : MatchesIntent(m, IntentOrder[i])

Returned == pc = "done"

Ran(node) == \E i \in 1..Len(visited) : visited[i] = node

IsPrefix(s, t) == Len(s) <= Len(t) /\ SubSeq(t, 1, Len(s)) = s

(***************************************************************************)
(* C1: every message that contains an emergency keyword, matches no        *)
(* direct-intent phrase and is not blocked by guardrails (fewer than 3     *)
(* strikes, no scope keyword) is returned with route = emergency, and the  *)
(* classifier is not invoked.                                              *)
(***************************************************************************)
C1_EmergencyKeywordAlwaysEmergency ==
    ( /\ Finished
      /\ arg.abuse_strikes < 3
      /\ Mentions(arg.message, EmergencyTerms)
      /\ ~Mentions(arg.message, ScopeTerms)
      /\ ~MatchesAnyIntent(arg.message) )
    => ( /\ Returned
         /\ state.route = "emergency"
         /\ clsCalls = 0 )

(***************************************************************************)
(* C2: when the classifier call fails, a message that is not a greeting,   *)
(* not blocked, no direct-intent match and no keyword emergency is         *)
(* returned with route = medical and classification unset; route_input     *)
(* does not raise.                                                         *)
(***************************************************************************)
C2_ClassifierFailureFallsBackToMedical ==
    ( /\ Finished
      /\ clsReply = Raised
      /\ ~IsGreeting(arg.message)
      /\ arg.abuse_strikes < 3
      /\ ~Mentions(arg.message, ScopeTerms)
      /\ ~MatchesAnyIntent(arg.message)
      /\ ~Mentions(arg.message, EmergencyTerms) )
    => ( /\ Returned
         /\ state.route = "medical"
         /\ state.classification = None )

(***************************************************************************)
(* C3: emergency detection does not depend on the classifier.  Of two      *)
(* invocations with the same message, containing an emergency keyword, and *)
(* the same strike count, whatever the classifier would answer in either,  *)
(* both return the same state dict and neither calls the classifier.       *)
(* Checked under SpecPair.                                                 *)
(***************************************************************************)
C3_EmergencyIndependentOfClassifier ==
    ( /\ Finished
      /\ first # NoRun
      /\ Mentions(arg.message, EmergencyTerms) )
    => ( /\ Returned
         /\ first.pc = "done"
         /\ state = first.state
         /\ clsCalls = 0
         /\ first.clsCalls = 0 )

C3_Witness ==
    /\ Returned
    /\ first # NoRun
    /\ first.arg = arg
    /\ Mentions(arg.message, EmergencyTerms)
    /\ state.route = "emergency"
    /\ first.state.route = "emergency"
    /\ visited = SubSeq(StageOrder, 1, 4)

(***************************************************************************)
(* C4: with 3 or more strikes every non-greeting message, whatever it      *)
(* contains, is returned blocked with the suspension reason and the strike *)
(* count unchanged; the scope check adds no strike.                        *)
(***************************************************************************)
C4_ThreeStrikesBlockEverything ==
    ( /\ Finished
      /\ arg.abuse_strikes >= 3
      /\ ~IsGreeting(arg.message) )
    => ( /\ Returned
         /\ state.route = "blocked"
         /\ state.block_reason = SUSPENDED_MSG
         /\ state.abuse_strikes = arg.abuse_strikes
         /\ visited = <<"greeting", "guardrails">>
         /\ clsCalls = 0 )

\* a suspended user sends a message with a scope keyword and an emergency keyword
C4_Witness ==
    /\ Returned
    /\ arg.abuse_strikes > 3
    /\ Mentions(arg.message, ScopeTerms)
    /\ Mentions(arg.message, EmergencyTerms)
    /\ state.route = "blocked"
    /\ state.block_reason = SUSPENDED_MSG

(***************************************************************************)
(* C5 as stated: every message that contains a non-medical scope keyword,  *)
(* with fewer than 3 strikes, is returned blocked, with the strike count   *)
(* raised by one and a block reason naming a scope keyword it contains.    *)
(***************************************************************************)
ScopeBlocked ==
    /\ Returned
    /\ state.route = "blocked"
    /\ state.abuse_strikes = arg.abuse_strikes + 1
    /\ \E t \in ScopeTerms :
          /\ Contains(Lower(arg.message), t)
          /\ Contains(state.block_reason, "help with " \o t \o "-related")

C5_ScopeKeywordBlocksAnyMessage ==
    ( /\ Finished
      /\ arg.abuse_strikes < 3
      /\ Mentions(arg.message, ScopeTerms) )
    => ScopeBlocked

(***************************************************************************)
(* C5 amended: every message that the greeting check passes on and that    *)
(* contains a non-medical scope keyword, with fewer than 3 strikes, is     *)
(* returned blocked, with the strike count raised by one and a block       *)
(* reason naming a scope keyword it contains.                              *)
(***************************************************************************)
C5_ScopeKeywordBlocksNonGreeting ==
    ( /\ Finished
      /\ arg.abuse_strikes < 3
      /\ Mentions(arg.message, ScopeTerms)
      /\ ~IsGreeting(arg.message) )
    => ScopeBlocked

\* the third strike: a scope keyword in upper case, in a message with an emergency keyword
C5_Witness ==
    /\ Returned
    /\ arg.abuse_strikes = 2
    /\ ~IsGreeting(arg.message)
    /\ Contains(arg.message, "Game")
    /\ state.route = "blocked"
    /\ state.abuse_strikes = 3
    /\ Contains(state.block_reason, "game-related")

(***************************************************************************)
(* C6: a message whose normalized form (punctuation stripped, lowercased,  *)
(* trimmed) is one of the greeting phrases is returned with route =        *)
(* greeting for every strike count, 3 and more included, with the strike   *)
(* count unchanged and no block reason; only the greeting node runs.       *)
(***************************************************************************)
C6_ExactGreetingAlwaysGreeting ==
    ( /\ Finished
      /\ normalize_for_greeting(arg.message) \in GREETING_PHRASES )
    => ( /\ Returned
         /\ state.route = "greeting"
         /\ state.abuse_strikes = arg.abuse_strikes
         /\ state.block_reason = None
         /\ visited = <<"greeting">>
         /\ clsCalls = 0 )

\* "Hello!" (upper case, punctuation) from a suspended user
C6_Witness ==
    /\ Returned
    /\ arg.abuse_strikes >= 3
    /\ arg.message # normalize_for_greeting(arg.message)
    /\ normalize_for_greeting(arg.message) \in GREETING_PHRASES
    /\ state.route = "greeting"

(***************************************************************************)
(* C7: the stages run in the order greeting, guardrails, intent override,  *)
(* emergency keyword scan, classifier, each ending the run or passing on;  *)
(* in particular a message that contains both a scope keyword and an       *)
(* emergency keyword is returned blocked (one strike added when the count  *)
(* was below 3) and never reaches the emergency scan.                      *)
(***************************************************************************)
C7_FixedStageOrder ==
    /\ IsPrefix(visited, StageOrder)
    /\ ( /\ Finished
         /\ Mentions(arg.message, ScopeTerms)
         /\ Mentions(arg.message, EmergencyTerms) )
       => ( /\ Returned
            /\ state.route = "blocked"
            /\ arg.abuse_strikes < 3 => state.abuse_strikes = arg.abuse_strikes + 1
            /\ ~Ran("emergency_keywords") )

(***************************************************************************)
(* C8: a non-greeting message without scope keyword, with fewer than 3     *)
(* strikes, that contains a doctor_handoff phrase is returned with route = *)
(* doctor_handoff, also when it contains an emergency keyword; neither the *)
(* emergency scan nor the classifier runs.                                 *)
(***************************************************************************)
C8_DoctorIntentBeforeEmergencyScan ==
    ( /\ Finished
      /\ arg.abuse_strikes < 3
      /\ MatchesIntent(arg.message, "doctor_handoff")
      /\ ~Mentions(arg.message, ScopeTerms)
      /\ ~IsGreeting(arg.message) )
    => ( /\ Returned
         /\ state.route = "doctor_handoff"
         /\ ~Ran("emergency_keywords")
         /\ ~Ran("ai_classify")
         /\ clsCalls = 0 )

\* "I want a doctor" together with an emergency keyword
C8_Witness ==
    /\ Returned
    /\ Contains(arg.message, "I want a doctor")
    /\ Mentions(arg.message, EmergencyTerms)
    /\ state.route = "doctor_handoff"
    /\ visited = SubSeq(StageOrder, 1, 3)

(***************************************************************************)
(* C9: once the intent override has run, the route is the first category   *)
(* in the order doctor_handoff, pharmacy_handoff, lab_handoff, emergency   *)
(* that has a phrase in the message (needs_classification when none has).  *)
(***************************************************************************)
FirstInOrder(m) ==
    LET hits == {i \in 1..Len(IntentOrder) : MatchesIntent(m, IntentOrder[i])}
    IN  IF hits = {} THEN "needs_classification"
        ELSE IntentOrder[CHOOSE i \in hits : \A j \in hits : i <= j]

C9_FirstIntentCategoryWins ==
    ( /\ Ran("intent_override")
      /\ visited[Len(visited)] = "intent_override" )
    => state.route = FirstInOrder(arg.message)

\* a lab phrase and an emergency-intent phrase, no doctor or pharmacy phrase
C9_Witness ==
    /\ Returned
    /\ MatchesIntent(arg.message, "lab_handoff")
    /\ MatchesIntent(arg.message, "emergency")
    /\ ~MatchesIntent(arg.message, "doctor_handoff")
    /\ ~MatchesIntent(arg.message, "pharmacy_handoff")
    /\ state.route = "lab_handoff"

(***************************************************************************)
(* C10: in one invocation the classifier is called at most once, with no   *)
(* retry after a failure, and only after greeting, guardrails, intent      *)
(* override and emergency scan each passed the message on; a run that ends *)
(* at one of the first four stages makes no call.                          *)
(***************************************************************************)
C10_ClassifierCalledAtMostOnceAndLast ==
    /\ clsCalls <= 1
    /\ clsCalls = 1 =>
          /\ Finished
          /\ visited = StageOrder
          /\ ~IsGreeting(arg.message)
          /\ arg.abuse_strikes < 3
          /\ ~Mentions(arg.message, ScopeTerms)
          /\ ~MatchesAnyIntent(arg.message)
          /\ ~Mentions(arg.message, EmergencyTerms)
    /\ (Finished /\ Len(visited) <= 4) => (clsCalls = 0 /\ clsReply = NoCall)
    /\ pc = "raised" => (clsCalls = 1 /\ ~ENABLED Nodes)

\* the one call failed and nothing called again
C10_Witness ==
    /\ pc = "raised"
    /\ clsCalls = 1
    /\ clsReply = Raised
    /\ visited = StageOrder

TerminalRoutes ==
    { "greeting", "blocked", "emergency", "doctor_handoff", "pharmacy_handoff",
      "lab_handoff", "medical", "unclear" }

InternalMarkers ==
    { "", "not_greeting", "passed_guardrails", "needs_classification",
      "needs_ai_classification" }

Categories == { "EMERGENCY", "MEDICAL", "UNCLEAR" }

\* the classifier answered (it was called and did not raise)
Answered == clsCalls = 1 /\ clsReply # Raised

\* the non-blank lines of a reply, each without surrounding blanks
ReplyLines(content) ==
    LET split == SplitLines(IF content = None THEN "" ELSE content, "")
    IN  SelectNonEmpty([i \in 1..Len(split) |-> Strip(split[i])])

\* the category the reply names on its first line, in upper case ("" if it has no line)
Category(content) ==
    IF Len(ReplyLines(content)) = 0 THEN "" ELSE Upper(ReplyLines(content)[1])

Malformed(content) == Category(content) \notin Categories

IsSuffix(s, t) == Len(s) <= Len(t) /\ SubSeq(t, Len(t) - Len(s) + 1, Len(t)) = s

\* the run ended in a scope-violation block (a block of a caller below the limit)
ScopeViolationBlock ==
    /\ Returned
    /\ state.route = "blocked"
    /\ arg.abuse_strikes < 3

(***************************************************************************)
(* C12: every invocation of route_input, whatever the message, the strike  *)
(* count and the classifier's outcome, ends by returning a state whose     *)
(* route is one of the eight terminal routes, never an internal marker.    *)
(***************************************************************************)
C12_EveryRunEndsWithTerminalRoute ==
    Finished
    => ( /\ Returned
         /\ state.route \in TerminalRoutes
         /\ state.route \notin InternalMarkers )

(***************************************************************************)
(* C13 as stated: when the classifier's reply is malformed (no line, or a  *)
(* first line that is no category), the returned route is medical, the     *)
(* doctor suggestion is unset and the classification is unset.             *)
(***************************************************************************)
C13_MalformedLeavesClassificationUnset ==
    ( /\ Returned
      /\ Answered
      /\ Malformed(clsReply) )
    => ( /\ state.route = "medical"
         /\ state.doctor_suggestion_text = None
         /\ state.classification = None )

(***************************************************************************)
(* C13 amended: when the classifier's reply is malformed, the returned     *)
(* route is medical (never blocked, emergency or unclear) and the doctor   *)
(* suggestion is unset; the classification is MEDICAL for a reply without  *)
(* a line and the upper-cased first line otherwise.                        *)
(***************************************************************************)
C13_MalformedFallsBackToMedical ==
    ( /\ Returned
      /\ Answered
      /\ Malformed(clsReply) )
    => ( /\ state.route = "medical"
         /\ state.doctor_suggestion_text = None
         /\ state.classification =
               IF Category(clsReply) = "" THEN "MEDICAL" ELSE Category(clsReply) )

\* a malformed reply of two lines was answered with medical
C13_Witness ==
    /\ Returned
    /\ Answered
    /\ Malformed(clsReply)
    /\ Len(ReplyLines(clsReply)) = 2
    /\ state.route = "medical"

(***************************************************************************)
(* C14: when the classifier is reached and its reply names a category,     *)
(* the route is that category's (EMERGENCY emergency, MEDICAL medical,     *)
(* UNCLEAR unclear) and the state carries the category as classification;  *)
(* a doctor suggestion is carried only for MEDICAL with a second line.     *)
(***************************************************************************)
C14_RecognisedCategoryMapsIdentically ==
    ( /\ Returned
      /\ Answered
      /\ ~Malformed(clsReply) )
    => ( /\ state.route = Lower(Category(clsReply))
         /\ state.classification = Category(clsReply)
         /\ state.doctor_suggestion_text # None
               => ( /\ Category(clsReply) = "MEDICAL"
                    /\ Len(ReplyLines(clsReply)) >= 2
                    /\ state.doctor_suggestion_text = ReplyLines(clsReply)[2] ) )

\* UNCLEAR, answered in lower case with blanks around it, was routed to unclear
C14_Witness ==
    /\ Returned
    /\ Answered
    /\ clsReply # "UNCLEAR"
    /\ Category(clsReply) = "UNCLEAR"
    /\ state.route = "unclear"
    /\ state.classification = "UNCLEAR"

(***************************************************************************)
(* C15: in every returned state, block_reason is set only with route       *)
(* blocked; doctor_suggestion_text only with route medical after the       *)
(* classifier was invoked; classification only after the classifier was    *)
(* invoked (unset for greeting, blocked, the handoffs and the keyword      *)
(* emergency); block_reason and doctor_suggestion_text are never both set. *)
(***************************************************************************)
C15_OptionalFieldsFollowTheRoute ==
    Returned
    => ( /\ state.block_reason # None => state.route = "blocked"
         /\ state.doctor_suggestion_text # None
               => (state.route = "medical" /\ clsCalls = 1)
         /\ state.classification # None => clsCalls = 1
         /\ state.route \in { "greeting", "blocked", "doctor_handoff",
                              "pharmacy_handoff", "lab_handoff" }
               => state.classification = None
         /\ (state.route = "emergency" /\ ~Ran("ai_classify"))
               => state.classification = None
         /\ ~(state.block_reason # None /\ state.doctor_suggestion_text # None) )

\* the classifier answered EMERGENCY with a second line: no suggestion is carried
C15_Witness ==
    /\ Returned
    /\ Answered
    /\ state.route = "emergency"
    /\ Len(ReplyLines(clsReply)) = 2
    /\ state.doctor_suggestion_text = None
    /\ state.classification = "EMERGENCY"

(***************************************************************************)
(* C16: the returned strike count differs from the count passed in only    *)
(* when the run ends in a scope-violation block, where it is the count     *)
(* passed in plus one; a greeting, a suspension block, a handoff, a        *)
(* keyword emergency and a classifier result return it unchanged.          *)
(***************************************************************************)
C16_StrikeChangesOnlyOnScopeBlock ==
    Returned
    => state.abuse_strikes =
          IF ScopeViolationBlock THEN arg.abuse_strikes + 1 ELSE arg.abuse_strikes

\* a suspended caller's out-of-scope message was blocked with the count unchanged
C16_Witness ==
    /\ Returned
    /\ state.route = "blocked"
    /\ arg.abuse_strikes >= 3
    /\ state.abuse_strikes = arg.abuse_strikes
    /\ Mentions(arg.message, ScopeTerms)

(***************************************************************************)
(* C17: on a scope-violation block the block reason is the scope rejection *)
(* followed by the strike policy's text for the new strike count, and that *)
(* is the message the chat and the triage endpoint send to the user.       *)
(***************************************************************************)
C17_BlockReasonCarriesWarning ==
    ScopeViolationBlock
    => LET warning == check_abuse_strikes(state.abuse_strikes)[2]
       IN  /\ warning # ""
           /\ IsSuffix(warning, state.block_reason)
           /\ IsSuffix(warning, chat_blocked_message(state))
           /\ IsSuffix(warning, triage_blocked_message(state))

(***************************************************************************)
(* C18: check_abuse_strikes depends on the count alone: 3 or more is not   *)
(* allowed, with the suspension message; 2 is allowed with the final       *)
(* warning; 1 is allowed with the mild warning; 0 is allowed with no text. *)
(* Stated of the two counts the guardrails node applies it to.             *)
(***************************************************************************)
StrikePolicy(count, result) ==
    IF count >= 3
    THEN ~result[1] /\ Contains(result[2], "has been suspended")
    ELSE IF count = 2
    THEN result[1] /\ IsPrefix("Final warning", result[2])
    ELSE IF count = 1
    THEN /\ result[1]
         /\ result[2] # ""
         /\ ~Contains(result[2], "Final warning")
         /\ ~Contains(result[2], "suspended")
    ELSE result[1] /\ result[2] = ""

C18_StrikePolicyTable ==
    ( /\ Ran("guardrails")
      /\ visited[Len(visited)] = "guardrails" )
    => ( /\ StrikePolicy(arg.abuse_strikes, check_abuse_strikes(arg.abuse_strikes))
         /\ StrikePolicy(arg.abuse_strikes + 1, check_abuse_strikes(arg.abuse_strikes + 1))
         /\ (state.route = "blocked" /\ arg.abuse_strikes >= 3)
               => state.block_reason = check_abuse_strikes(arg.abuse_strikes)[2] )

\* the guardrails node applied the policy at the limit and suspended the caller
C18_Witness ==
    /\ Ran("guardrails")
    /\ visited[Len(visited)] = "guardrails"
    /\ arg.abuse_strikes = 3
    /\ state.route = "blocked"
    /\ Contains(state.block_reason, "has been suspended")

(***************************************************************************)
(* C19: a negative or missing strike count is treated as 0: the message    *)
(* passes the strike policy, and an out-of-scope message that is not a     *)
(* greeting is blocked with an updated strike count of 1.  Checked under   *)
(* SpecInvalid.                                                            *)
(***************************************************************************)
C19_InvalidCountTreatedAsZero ==
    ( /\ Returned
      /\ arg.abuse_strikes <= 0
      /\ ~IsGreeting(arg.message)
      /\ Mentions(arg.message, ScopeTerms) )
    => ( /\ state.route = "blocked"
         /\ Contains(state.block_reason, "medical-only platform")
         /\ state.abuse_strikes = 1 )

(***************************************************************************)
(* C20: the greeting check answers greeting exactly when the normalized    *)
(* message is empty (an empty, blank or punctuation-only message), or is a *)
(* phrase of the greeting set, or has at most 25 characters and contains   *)
(* hello, hi, hey, thanks or bye; otherwise the run goes on to the         *)
(* guardrails.                                                             *)
(***************************************************************************)
GreetingRule(m) ==
    LET normalized == normalize_for_greeting(m)
    IN  \/ normalized = ""
        \/ normalized \in GREETING_PHRASES
        \/ /\ Len(normalized) <= 25
           /\ \E seed \in { "hello", "hi", "hey", "thanks", "bye" } :
                 Contains(normalized, seed)

C20_GreetingExactlyByRule ==
    visited = << "greeting" >>
    => IF GreetingRule(arg.message)
       THEN state.route = "greeting" /\ Returned
       ELSE state.route # "greeting" /\ pc = "guardrails"

\* a message of normalized length 25 with a seed, told from its 26 raw characters
C20_Witness ==
    /\ visited = << "greeting" >>
    /\ Len(arg.message) > 25
    /\ Len(normalize_for_greeting(arg.message)) = 25
    /\ normalize_for_greeting(arg.message) \notin GREETING_PHRASES
    /\ state.route = "greeting"
    /\ Returned

(***************************************************************************)
(* Vocabulary of C21: the handoff a single word asks for, and a run that   *)
(* ended at the intent override with a handoff.                            *)
(***************************************************************************)
HandoffOf(word) ==
    IF word = "doctor" THEN "doctor_handoff"
    ELSE IF word \in { "pharmacy", "medicine" } THEN "pharmacy_handoff"
    ELSE "lab_handoff"

HandedOffBy(words) ==
    /\ Returned
    /\ \E w \in words : Contains(Lower(arg.message), w) /\ state.route = HandoffOf(w)
    /\ ~Ran("emergency_keywords")
    /\ clsCalls = 0

\* the message is passed on by the greeting check and by the guardrails
ReachesIntentOverride ==
    /\ arg.abuse_strikes < 3
    /\ ~IsGreeting(arg.message)
    /\ ~Mentions(arg.message, ScopeTerms)

(***************************************************************************)
(* C21 as stated: every non-greeting, in-scope message with fewer than 3   *)
(* strikes that contains doctor, pharmacy, medicine or test is handed off  *)
(* (doctor_handoff for doctor, pharmacy_handoff for pharmacy or medicine,  *)
(* lab_handoff for test) without the emergency scan or the classifier.     *)
(***************************************************************************)
C21_SingleWordsHandOff ==
    ( /\ Finished
      /\ ReachesIntentOverride
      /\ Mentions(arg.message, { "doctor", "pharmacy", "medicine", "test" }) )
    => HandedOffBy({ "doctor", "pharmacy", "medicine", "test" })

(***************************************************************************)
(* C21 amended: the single words of the phrase lists are doctor and test.  *)
(* Such a message that contains doctor is routed to doctor_handoff; one    *)
(* that contains test and not doctor is routed to lab_handoff, or to       *)
(* pharmacy_handoff when it contains a phrase of the pharmacy list; none   *)
(* reaches the emergency scan or the classifier.                           *)
(***************************************************************************)
C21_DoctorAndTestHandOff ==
    ( /\ Finished
      /\ ReachesIntentOverride
      /\ Mentions(arg.message, { "doctor", "test" }) )
    => ( /\ Returned
         /\ ~Ran("emergency_keywords")
         /\ clsCalls = 0
         /\ state.route =
               IF Mentions(arg.message, { "doctor" }) THEN "doctor_handoff"
               ELSE IF MatchesIntent(arg.message, "pharmacy_handoff") THEN "pharmacy_handoff"
               ELSE "lab_handoff" )

\* a message with test inside another word was handed to the lab
C21_Witness ==
    /\ Returned
    /\ ReachesIntentOverride
    /\ Contains(arg.message, "latest")
    /\ ~Contains(arg.message, "lab test")
    /\ state.route = "lab_handoff"
    /\ visited = << "greeting", "guardrails", "intent_override" >>

(***************************************************************************)
(* Vocabulary of the severity properties: the keyword tiers in the order   *)
(* the rule-based scorer is said to look at them, and the calls it serves. *)
(***************************************************************************)
SeverityTiers ==
    << [ terms |-> { "suicidal", "suicide", "self-harm", "end my life", "want to die" },
         m |-> "M1", p |-> "P3" ],
       [ terms |-> { "anxiety", "panic", "depressed", "insomnia", "overwhelmed" },
         m |-> "M1", p |-> "P2" ],
       [ terms |-> { "stress", "tired", "sleep", "worried", "mood" },
         m |-> "M0", p |-> "P1" ],
       [ terms |-> EmergencyTerms, m |-> "M3", p |-> "P0" ],
       [ terms |-> { "severe", "critical", "intense pain", "high fever", "vomiting blood",
                     "allergic reaction", "broken bone", "deep cut", "burn" },
         m |-> "M2", p |-> "P0" ],
       [ terms |-> { "fever", "cough", "headache", "stomach", "rash", "infection",
                     "pain", "dizzy", "nausea", "cold", "flu" },
         m |-> "M1", p |-> "P0" ] >>

\* the pair of the first tier with a keyword in the text, (M1, P0) when none has
FirstTier(text) ==
    LET hits == {i \in 1..Len(SeverityTiers) : Mentions(text, SeverityTiers[i].terms)}
    IN  IF hits = {} THEN << "M1", "P0" >>
        ELSE LET i == CHOOSE j \in hits : \A k \in hits : j <= k
             IN  << SeverityTiers[i].m, SeverityTiers[i].p >>

\* calculate_severity was called and has returned or raised
Scored == call.op = "calculate_severity"

\* the scorer in use is the rule-based one: no key is configured
RuleBased == call.env.google_api_key \in {None, ""}

\* the text that is scored
ScoredText == IF Len(call.symptoms) = 0 THEN "" ELSE Strip(Join(call.symptoms))

(***************************************************************************)
(* C24: the rule-based scorer looks at the tiers in the order crisis,      *)
(* moderate and low psychological, emergency, high and moderate medical,   *)
(* default (M1, P0), and the first tier with a keyword decides; a message  *)
(* with a crisis keyword scores P3 whatever else it contains, and an empty *)
(* message scores (M0, P0).  Checked under SpecSeverity.                   *)
(***************************************************************************)
C24_FirstMatchingTierDecides ==
    (Scored /\ RuleBased)
    => ( /\ ~reply.raised
         /\ << reply.m, reply.p >> =
               IF ScoredText = "" THEN << "M0", "P0" >> ELSE FirstTier(ScoredText)
         /\ Mentions(ScoredText, SeverityTiers[1].terms) => reply.p = "P3" )

\* a message with a crisis keyword and an emergency keyword scored (M1, P3)
C24_Witness ==
    /\ Scored
    /\ RuleBased
    /\ Mentions(ScoredText, { "suicidal" })
    /\ Mentions(ScoredText, { "chest pain" })
    /\ reply = Pair("M1", "P3")

(***************************************************************************)
(* C25: calculate_severity uses the classifier-based scorer when it is     *)
(* available and the rule-based scorer on any failure of it (library or    *)
(* key missing, classifier call failing), so it always returns a pair of   *)
(* M0..M3 and P0..P3 and never raises.  Checked under SpecSeverity.        *)
(***************************************************************************)
C25_SeverityNeverRaises ==
    Scored
    => ( /\ ~reply.raised
         /\ reply.m \in MedicalCodes
         /\ reply.p \in PsychologicalCodes
         /\ (call.content = Raised \/ ~call.env.langchain \/ RuleBased)
               => << reply.m, reply.p >> =
                     IF ScoredText = "" THEN << "M0", "P0" >> ELSE FirstTier(ScoredText) )

RECURSIVE ConsecutiveConfirms(_, _)
ConsecutiveConfirms(requests, session_id) ==
    IF requests = <<>> THEN 0
    ELSE LET last == requests[Len(requests)]
             before == SubSeq(requests, 1, Len(requests) - 1)
         IN  IF last.session_id # session_id
             THEN ConsecutiveConfirms(before, session_id)
             ELSE IF last.confirmed
                  THEN 1 + ConsecutiveConfirms(before, session_id)
                  ELSE 0

Confirming == call.op = "confirm" /\ reply # NoReply

(***************************************************************************)
(* C29: the emergency confirmation is a 3-step flow per session id: a      *)
(* confirm request reports ready_for_services = true only when at least    *)
(* three confirmed = true requests for that session id were received       *)
(* consecutively since the start or since its last confirmed = false; a    *)
(* confirmed = false resets the session's step to 0 and reports step 0     *)
(* with ready_for_services = false; the reported step is always in 0..3.   *)
(* Checked under SpecEmergency.                                            *)
(***************************************************************************)
C29_ThreeConsecutiveConfirmations ==
    Confirming
    => LET id == call.body.session_id IN
       /\ reply.ready_for_services => ConsecutiveConfirms(log, id) >= 3
       /\ ~call.body.confirmed
             => ( /\ id \in DOMAIN store
                  /\ store[id] = 0
                  /\ reply.step = 0
                  /\ ~reply.ready_for_services )
       /\ reply.step \in 0 .. 3

\* a session that cancelled is ready after three further confirmations,
\* with another session's request in between
C29_Witness ==
    /\ Confirming
    /\ reply.ready_for_services
    /\ \E i \in 1 .. Len(log) :
          /\ log[i].session_id = call.body.session_id
          /\ ~log[i].confirmed
    /\ \E i \in 1 .. Len(log) : log[i].session_id # call.body.session_id

\* the number of entries of seq equal to x
RECURSIVE Count(_, _)
Count(seq, x) ==
    IF seq = <<>> THEN 0
    ELSE (IF Head(seq) = x THEN 1 ELSE 0) + Count(Tail(seq), x)

(***************************************************************************)
(* C28: OTC requests are limited to max_otc_attempts (3): after a user has *)
(* made 3 OTC requests the user's OTC privilege is LOCKED and every later  *)
(* OTC request of that user returns status locked with 0 attempts          *)
(* remaining; no operation returns a LOCKED user to ACTIVE.  Checked under *)
(* SpecOtc.                                                                *)
(***************************************************************************)
C28_LockedAfterThreeRequests ==
    ( /\ call.op = "otc"
      /\ reply # NoReply
      /\ call.body.user_id \in DOMAIN store
      /\ Count(log, call.body.user_id) > max_otc_attempts )
    => ( /\ store[call.body.user_id].otc_privilege_status = "LOCKED"
         /\ reply.status = "locked"
         /\ reply.otc_attempts_remaining = 0 )

\* the addresses of a comma-separated tester list
TesterList(tester_emails) ==
    IF tester_emails = None THEN {}
    ELSE LET pieces == SplitCommas(tester_emails, "") IN
         { Strip(pieces[i]) : i \in 1 .. Len(pieces) } \ { "" }

\* an address is in the list, letter case and surrounding blanks aside
InTesterList(email, tester_emails) ==
    \E t \in TesterList(tester_emails) : Lower(t) = Lower(Strip(email))

Limited == call.op = "get_message_limit_for_user" /\ reply # NoReply

\* the call is for an anonymous user: no id, an anon_ id, no row or no email
AnonymousCall ==
    \/ call.user_id \in { None, "" }
    \/ IsPrefix("anon_", call.user_id)
    \/ call.user_obj = NoRow
    \/ call.user_obj.email \in { None, "" }

(***************************************************************************)
(* C30: the message quota has three tiers: get_message_limit_for_user      *)
(* returns max_messages_anonymous (6) for a missing user id, an id with    *)
(* the anon_ prefix, or an id with no stored user or no stored email; 9999 *)
(* for a stored user whose email is in the tester list; and                *)
(* max_messages_logged_in (20) for every other stored user with an email.  *)
(* Checked under SpecQuota.                                                *)
(***************************************************************************)
C30_ThreeQuotaTiers ==
    Limited
    => reply.limit =
          IF AnonymousCall THEN 6
          ELSE IF InTesterList(call.user_obj.email, call.tester_emails) THEN 9999
          ELSE 20

\* a stored user whose email is on a tester list of two addresses got 9999
C30_Witness ==
    /\ Limited
    /\ call.user_id = "u1"
    /\ call.user_obj # NoRow
    /\ call.user_obj.email = "pat@example.com"
    /\ Cardinality(TesterList(call.tester_emails)) = 2
    /\ reply.limit = 9999

\* an endpoint has answered the request in call
Answering == call.op \in { "chat", "triage" } /\ reply # NoReply

\* the response blocks the request with the suspension reason
Suspends(response) ==
    /\ response.status = 200
    /\ response.message = SUSPENDED_MSG
    /\ IF call.op = "chat" THEN response.action = None
       ELSE response.recommended_action = "blocked"

(***************************************************************************)
(* C22: three strikes permanently suspend: over any sequence of chat and   *)
(* triage requests from one user, served one at a time, once three         *)
(* non-greeting out-of-scope messages have been blocked, every later       *)
(* non-greeting message of that user is blocked with the suspension        *)
(* reason; the stored strike count never exceeds 3.  Checked under         *)
(* SpecUser.                                                               *)
(***************************************************************************)
C22_ThreeStrikesSuspend ==
    /\ ( /\ Answering
         /\ call.blocked_before >= STRIKE_LIMIT
         /\ ~GreetingRule(call.request.message) )
       => Suspends(reply)
    /\ \A id \in DOMAIN store.users : store.users[id].abuse_strikes \in 0 .. STRIKE_LIMIT

\* the sessions created for user_id at the times from .. to
CreatedWithin(db, user_id, from, to) ==
    { i \in DOMAIN db.sessions :
        /\ db.sessions[i].user_id = user_id
        /\ db.sessions[i].created_at >= from
        /\ db.sessions[i].created_at <= to }

\* no user has more than max_sessions_per_day sessions created within a day
\* ending at any time up to now
SessionsCapped ==
    \A user_id \in UserIds, t \in 0 .. clock :
        Cardinality(CreatedWithin(store, user_id, t - DayTicks, t)) <= max_sessions_per_day

\* the sessions of the requesting user that the request in call found ACTIVE
\* and idle for longer than session_timeout_minutes
FoundIdle ==
    { i \in DOMAIN call.before.sessions :
        /\ call.before.sessions[i].user_id = call.request.user_id
        /\ call.before.sessions[i].status = "ACTIVE"
        /\ clock - call.before.sessions[i].last_activity > session_timeout_minutes }

\* the request in call was refused because of the daily cap
RefusedByCap ==
    /\ reply # NoReply
    /\ reply.status = 200
    /\ reply.message = "Maximum sessions per day reached. Please try again tomorrow."

\* the request in call left no idle session ACTIVE and uses none
IdleSessionsClosed ==
    \A i \in FoundIdle :
        /\ store.sessions[i].status = "TIMEOUT"
        /\ call.session # i

\* C27 as stated: session creation is capped per day, and an ACTIVE session
\* idle for longer than session_timeout_minutes is marked TIMEOUT on the next
\* request instead of being reused.
C27_IdleSessionClosedOnNextRequest ==
    /\ SessionsCapped
    /\ call.op \in { "chat", "triage" } => IdleSessionsClosed

(***************************************************************************)
(* C27, amended: over any sequence of requests from one user, served one   *)
(* at a time, the number of sessions created for that user within any      *)
(* trailing day never exceeds max_sessions_per_day, and an ACTIVE session  *)
(* idle for longer than session_timeout_minutes is marked TIMEOUT, instead *)
(* of being reused, on the next request that the daily cap does not        *)
(* refuse; a request the cap refuses leaves the sessions as they are.      *)
(* Checked under SpecSessions.                                             *)
(***************************************************************************)
C27_SessionCapAndTimeout ==
    /\ SessionsCapped
    /\ call.op \in { "chat", "triage" }
          => IF RefusedByCap
             THEN store.sessions = call.before.sessions
             ELSE IdleSessionsClosed

\* a request found the user's session idle, closed it and got a new one
C27_Witness ==
    /\ call.op \in { "chat", "triage" }
    /\ FoundIdle # {}
    /\ ~RefusedByCap
    /\ \A i \in FoundIdle : store.sessions[i].status = "TIMEOUT"
    /\ call.session > Len(call.before.sessions)
    /\ store.sessions[call.session].created_at = clock

\* both workers have answered an out-of-scope request of the same user with the
\* scope block, and both had read the stored count n before either wrote
Overlapped(n) ==
    /\ \A w \in Workers :
          /\ call[w] # NoRequest
          /\ reply[w] # NoReply
          /\ call[w].before.users["u1"].abuse_strikes = n
          /\ AnsweredWithScopeBlock(call[w].request.message, reply[w])

(***************************************************************************)
(* C23: the chat and triage endpoints serialize the read-modify-write of   *)
(* the strike count per user: when two out-of-scope requests of the same   *)
(* stored user overlap (both read the stored count before either writes),  *)
(* the stored count still ends up increased by 2, so no strike update is   *)
(* lost.  Checked under SpecRace.                                          *)
(***************************************************************************)
C23_NoStrikeUpdateLost ==
    \A n \in 0 .. STRIKE_LIMIT - 2 :
        Overlapped(n) => store.users["u1"].abuse_strikes = n + 2

\* the message of _user_message for a medical route in crisis (chat.py:146-149)
CrisisHelplineReply ==
    "If you're in crisis, please reach out to a helpline. Open the link below to see numbers and find mental health support."

(***************************************************************************)
(* C36: in the chat endpoint, whenever the route is medical, the           *)
(* psychological severity is P3 and the medical severity is not M3, the    *)
(* reply is the crisis-helpline message with action psychological,         *)
(* whatever else the message mentions.  Checked under SpecSeverity.        *)
(***************************************************************************)
C36_CrisisAnswersWithHelpline ==
    ( /\ call.op = "chat"
      /\ reply # NoReply
      /\ call.result.route = "medical"
      /\ call.severity.p = "P3"
      /\ call.severity.m # "M3" )
    => /\ reply.status = 200
       /\ reply.action = "psychological"
       /\ reply.message = CrisisHelplineReply

\* the ACTIVE sessions of a user
ActiveSessions(db, user_id) ==
    { i \in SessionsOf(db, user_id) : db.sessions[i].status = "ACTIVE" }

\* a step keeps every session row, leaves its status or moves it from ACTIVE to
\* TIMEOUT, and adds rows as ACTIVE only
StatusMoves ==
    /\ \A i \in DOMAIN store.sessions :
          /\ i \in DOMAIN store'.sessions
          /\ \/ store'.sessions[i].status = store.sessions[i].status
             \/ /\ store.sessions[i].status = "ACTIVE"
                /\ store'.sessions[i].status = "TIMEOUT"
    /\ \A i \in DOMAIN store'.sessions \ DOMAIN store.sessions :
          store'.sessions[i].status = "ACTIVE"

AtMostOneActive ==
    \A user_id \in UserIds : Cardinality(ActiveSessions(store, user_id)) <= 1

(***************************************************************************)
(* C32: session status only moves from ACTIVE to TIMEOUT: no request sets  *)
(* a TIMEOUT session back to ACTIVE or sets CLOSED, and after any sequence *)
(* of requests processed one at a time each user has at most one ACTIVE    *)
(* session.  Checked under SpecSessions.                                   *)
(***************************************************************************)
C32_StatusOnlyActiveToTimeout ==
    /\ [][StatusMoves]_vars
    /\ [](/\ AtMostOneActive
          /\ \A i \in DOMAIN store.sessions :
                store.sessions[i].status \in { "ACTIVE", "TIMEOUT" })

\* a request of a user found the session idle, marked it TIMEOUT and got a new
\* ACTIVE one
C32_Witness ==
    /\ Answering
    /\ \E i, j \in SessionsOf(store, call.request.user_id) :
          /\ i \in DOMAIN call.before.sessions
          /\ call.before.sessions[i].status = "ACTIVE"
          /\ store.sessions[i].status = "TIMEOUT"
          /\ j \notin DOMAIN call.before.sessions
          /\ store.sessions[j].status = "ACTIVE"
          /\ call.session = j

\* the daily cap is reached for the request being answered
CapReached ==
    Cardinality({ i \in SessionsOf(call.before, call.request.user_id) :
                    call.before.sessions[i].created_at >= clock - DayTicks })
        >= max_sessions_per_day

(***************************************************************************)
(* C33: when the number of the user's sessions created in the trailing 24  *)
(* hours has reached max_sessions_per_day, every chat and triage request   *)
(* of that user is answered with the session-cap message, also while the   *)
(* user's latest session is ACTIVE and not idle; route_input is not        *)
(* invoked, no session is created or timed out, and message_count,         *)
(* last_activity and abuse_strikes are unchanged.  Checked under           *)
(* SpecSessions.                                                           *)
(***************************************************************************)
C33_CapRefusesEveryRequest ==
    ( Answering /\ CapReached )
    => /\ reply.status = 200
       /\ reply.message = SESSION_CAP_REPLY
       /\ call.result = NoState
       /\ store = call.before

\* a request is refused by the cap while the user's latest session is ACTIVE
\* and was used at this very time
C33_Witness ==
    /\ Answering
    /\ CapReached
    /\ reply.message = SESSION_CAP_REPLY
    /\ call.session # 0
    /\ store.sessions[call.session].status = "ACTIVE"
    /\ store.sessions[call.session].last_activity = clock
    /\ store.sessions[call.session].message_count > 0

\* the limit of a user, from the row the database holds
LimitOf(db, user_id) ==
    get_message_limit_for_user(user_id, UserRow(db, user_id), TESTER_EMAILS)

\* the database as the session gate left it for the request being answered
\* (time does not pass while a request is served)
GateDb == get_or_create_session(call.before, call.request.user_id, clock).db

\* the route the endpoint acts on: result.get("route") or "medical"
RouteOf == IF call.result.route = "" THEN "medical" ELSE call.result.route

\* route_input returned a result for the request being answered
RouterAnswered ==
    /\ Answering
    /\ call.result # NoState
    /\ call.result.route # Raised

WithinQuota ==
    \A i \in DOMAIN store.sessions :
        store.sessions[i].message_count
            <= LimitOf(store, store.sessions[i].user_id)

\* the request being answered came for a session in use (ACTIVE, not idle,
\* not refused by the daily cap) that had counted the user's limit
QuotaReached ==
    /\ Answering
    /\ ~CapReached
    /\ \E i \in ActiveSessions(call.before, call.request.user_id) :
          /\ call.before.sessions[i].last_activity >= clock - session_timeout_minutes
          /\ call.before.sessions[i].message_count
                >= LimitOf(call.before, call.request.user_id)

(***************************************************************************)
(* C31: over any sequence of chat and triage requests processed one at a   *)
(* time with a fixed limit, a session's message_count never exceeds the    *)
(* user's limit; once message_count >= limit every further request in      *)
(* that session gets the limit-reached answer, route_input is not invoked  *)
(* and no counter changes.  Checked under SpecGate.                        *)
(***************************************************************************)
C31_QuotaNeverExceeded ==
    /\ WithinQuota
    /\ QuotaReached
       => /\ reply.status = 200
          /\ reply.message =
                IF call.op = "chat"
                THEN limit_reached_message(LimitOf(call.before, call.request.user_id))
                ELSE triage_limit_reached_message(LimitOf(call.before, call.request.user_id))
          /\ call.result = NoState
          /\ store = call.before

\* the anonymous user's session counted its sixth message in this run and the
\* next request is refused
C31_Witness ==
    /\ QuotaReached
    /\ call.request.user_id = "anon_1f9c"
    /\ call.op = "triage"
    /\ store.sessions[call.session].message_count = max_messages_anonymous
    /\ reply.message = triage_limit_reached_message(max_messages_anonymous)
    /\ log.requests >= 3

(***************************************************************************)
(* C34: a request whose route is blocked leaves the session's              *)
(* message_count and last_activity unchanged and can only change the       *)
(* stored strike count; a request with any other route increases           *)
(* message_count by exactly 1, refreshes last_activity and leaves the      *)
(* stored strike count unchanged.  Checked under SpecGate.                 *)
(***************************************************************************)
C34_BlockedDoesNotCount ==
    RouterAnswered
    => IF RouteOf = "blocked"
       THEN /\ store.sessions = GateDb.sessions
            /\ DOMAIN store.users = DOMAIN GateDb.users
            /\ \A id \in DOMAIN store.users :
                  [store.users[id] EXCEPT !.abuse_strikes = 0]
                      = [GateDb.users[id] EXCEPT !.abuse_strikes = 0]
       ELSE /\ store.users = GateDb.users
            /\ store.sessions =
                  [GateDb.sessions EXCEPT ![call.session].message_count = @ + 1,
                                          ![call.session].last_activity = clock]

\* a greeting was counted on a session last used earlier
C34_Witness ==
    /\ RouterAnswered
    /\ RouteOf = "greeting"
    /\ GateDb.sessions[call.session].last_activity < clock
    /\ store.sessions[call.session].last_activity = clock
    /\ store.sessions[call.session].message_count
          = GateDb.sessions[call.session].message_count + 1

(***************************************************************************)
(* C35: when route_input raises inside the chat or triage endpoint, the    *)
(* request ends with an HTTP 503 error and the stored state is as before   *)
(* the routing call: message_count, last_activity and abuse_strikes are    *)
(* unchanged.  Checked under SpecGate.                                     *)
(***************************************************************************)
C35_RouterFailureChangesNothing ==
    ( /\ Answering
      /\ call.result # NoState
      /\ call.result.route = Raised )
    => /\ reply = RouterFailed
       /\ store = GateDb

\* the router failed on a message of the signed-up user
C35_Witness ==
    /\ Answering
    /\ call.result # NoState
    /\ call.result.route = Raised
    /\ call.request.user_id = "u1"
    /\ reply.status = 503
    /\ store.sessions[call.session].message_count = call.message_count

(***************************************************************************)
(* C38: every ChatResponse that carries remaining_prompts carries a value  *)
(* between 0 and the user's limit: 0 when the limit is reached, limit -    *)
(* message_count (at least 1, nothing counted) for a blocked request, and  *)
(* limit - message_count after the increment (at least 0) for every other  *)
(* routed request.  Checked under SpecGate.                                *)
(***************************************************************************)
C38_RemainingPromptsInRange ==
    ( /\ Answering
      /\ call.op = "chat"
      /\ reply.status = 200
      /\ reply.message # SESSION_CAP_REPLY )
    => LET limit == LimitOf(call.before, call.request.user_id)
           before == GateDb.sessions[call.session].message_count
           count == store.sessions[call.session].message_count
       IN  /\ reply.remaining_prompts \in 0..limit
           /\ IF call.result = NoState
              THEN /\ before >= limit
                   /\ reply.remaining_prompts = 0
              ELSE IF RouteOf = "blocked"
              THEN /\ count = before
                   /\ reply.remaining_prompts = limit - count
                   /\ reply.remaining_prompts >= 1
              ELSE /\ count = before + 1
                   /\ reply.remaining_prompts = limit - count

\* the last message of the quota was answered with 0 prompts remaining
C38_Witness ==
    /\ Answering
    /\ call.op = "chat"
    /\ reply.status = 200
    /\ call.result # NoState
    /\ RouteOf \notin { "blocked", Raised }
    /\ reply.remaining_prompts = 0
    /\ store.sessions[call.session].message_count
          = LimitOf(call.before, call.request.user_id)

(***************************************************************************)
(* C37: the message quota also holds when requests of the same user        *)
(* overlap: for any interleaving of concurrent chat or triage requests on  *)
(* one session, the number of requests that reach route_input in that      *)
(* session never exceeds the user's limit, and message_count equals the    *)
(* number of non-blocked requests processed.  Checked under SpecQuotaRace, *)
(* where every request that reaches the router is counted; the equality    *)
(* is looked at when no request is between the router and its response.    *)
(***************************************************************************)
C37_QuotaHoldsWhenRequestsOverlap ==
    /\ log.routed <= LimitOf(store, "u1")
    /\ log.routed = log.counted
       => store.sessions[1].message_count = log.counted

====
